---- MODULE Spec2Model ----
(***************************************************************************)
(* LeadPay: the name normaliser and the multi-strategy name matching       *)
(* engine of backend/app/services/matching_engine.py, the bank statement   *)
(* parser of backend/app/services/excel_parser.py, the payment status of    *)
(* backend/app/routers/payments.py, the tenant import, the phone           *)
(* normaliser and the tenant deletion of backend/app/routers/tenants.py,   *)
(* the statement upload and the manual match of                            *)
(* backend/app/routers/statements.py, and the reminders of                 *)
(* backend/app/routers/messages.py.                                        *)
(*                                                                         *)
(* Strings are sequences of Unicode code points.  Python's None is the     *)
(* one-element sequence <<-1>> for names and the integer -1 for amounts.   *)
(* Scores are exact rationals scaled by ScoreScale, so that 1.0 is         *)
(* ScoreScale and 0.7 is 7 * ScoreScale \div 10.                           *)
(***************************************************************************)
EXTENDS Integers, Sequences, FiniteSets, TLC

VARIABLES
    pc,                 \* position of the driver of the specification in use
    name,               \* argument of _normalize_name
    normalized,         \* _normalize_name(name)
    renormalized,       \* _normalize_name(_normalize_name(name))
    payer_name,         \* arguments of match_transaction_to_tenants
    tenants,
    expected_amount,
    actual_amount,
    hash_first,         \* the token list(set(...))[0] yields in this process
    selected,           \* best_match, best_score, best_method after the loop
    decision,           \* the returned tuple
    baseline,           \* the tuple returned by the same call without amounts
    evaluations,        \* number of strategy evaluations the call performed
    top_n,              \* argument of suggest_matches
    suggestions,        \* the list suggest_matches returns
    description,        \* argument of _extract_payer_name
    extracted,          \* the payer name _extract_payer_name returns
    rows,               \* the rows of the data frame parse_excel reads
    coerce_keeps,       \* whether this pandas build keeps a datetime cell
                        \* when to_datetime coerces a column of strings
    transactions,       \* the transactions parse_excel returns
    metadata,           \* the metadata parse_excel returns
    active_tenants,     \* the active tenants of the building, each with the
                        \* expected_payment of its apartment
    building_default,   \* building.expected_monthly_payment
    period_transactions,\* the payment transactions of the period
    statuses,           \* tenant_statuses of get_payment_status
    summary,            \* the summary of get_payment_status
    national,           \* the national digits of a phone number
    phone,              \* argument of normalize_phone
    phone_out,          \* normalize_phone(phone)
    phone_again,        \* normalize_phone(phone_out)
    sheet,              \* the headers and the rows of the uploaded tenant file
    db_tenants,         \* the tenants the import adds to the session
    response,           \* what import_tenants_from_excel returns
    tenant_table,       \* ids of the rows of table tenants
    transaction_table,  \* the rows of table transactions
    name_mapping_table, \* the rows of table name_mappings
    request,            \* the last request answered and its status
    requests,           \* number of requests answered
    sessions,           \* the manual-match requests in flight
    threshold,          \* confidence_threshold of the engine
    phones,             \* tenants.phone of the active tenants
    only_unpaid,        \* argument of generate_payment_reminders
    messages            \* the messages generate_payment_reminders returns

vars == <<pc, name, normalized, renormalized, payer_name, tenants,
          expected_amount, actual_amount, hash_first, selected, decision,
          baseline, evaluations, top_n, suggestions, description,
          extracted, rows, coerce_keeps, transactions, metadata,
          active_tenants, building_default, period_transactions, statuses,
          summary,
          national, phone, phone_out, phone_again,
          sheet, db_tenants, response,
          tenant_table, transaction_table, name_mapping_table, request,
          requests, sessions,
          threshold,
          phones, only_unpaid, messages>>

normVars == <<name, normalized, renormalized>>
matchVars == <<payer_name, tenants, expected_amount, actual_amount,
               hash_first, selected, decision, baseline, evaluations>>
suggestVars == <<top_n, suggestions>>
payerVars == <<description, extracted>>
parseVars == <<rows, coerce_keeps, transactions, metadata>>
reconVars == <<active_tenants, building_default, period_transactions,
               statuses, summary>>
phoneVars == <<national, phone, phone_out, phone_again>>
importVars == <<sheet, db_tenants, response>>
ledgerVars == <<tenant_table, transaction_table, name_mapping_table, request,
                requests, sessions>>
thresholdVars == <<threshold>>
reminderVars == <<phones, only_unpaid, messages>>

-----------------------------------------------------------------------------
(* Code points.                                                            *)

Ch == [tab |-> 9, sp |-> 32, quote |-> 34, apos |-> 39, comma |-> 44,
       dot |-> 46, A |-> 65, a |-> 97, b |-> 98, c |-> 99, d |-> 100,
       kaf_final |-> 1498, kaf |-> 1499, mem_final |-> 1501, mem |-> 1502,
       nun_final |-> 1503, nun |-> 1504, pe_final |-> 1507, pe |-> 1508,
       tsadi_final |-> 1509, tsadi |-> 1510, gershayim |-> 1524]

None == <<-1>>

NoAmount == -1

\* what str.split() and str.strip() treat as whitespace (the ASCII part)
Whitespace == {9, 10, 11, 12, 13, 28, 29, 30, 31, 32}

\* the character class of re.sub(r'[.,\'"״״]', '', name)
Punctuation == {Ch.dot, Ch.comma, Ch.apos, Ch.quote, Ch.gershayim}

final_to_normal ==
    (Ch.kaf_final :> Ch.kaf) @@ (Ch.mem_final :> Ch.mem) @@
    (Ch.nun_final :> Ch.nun) @@ (Ch.pe_final :> Ch.pe) @@
    (Ch.tsadi_final :> Ch.tsadi)

FinalLetters == DOMAIN final_to_normal

-----------------------------------------------------------------------------
(* String primitives of Python used by the engine.                         *)

RECURSIVE SplitAcc(_, _, _, _)
SplitAcc(s, i, cur, acc) ==
    IF i > Len(s)
    THEN IF cur = <<>> THEN acc ELSE Append(acc, cur)
    ELSE IF s[i] \in Whitespace
         THEN SplitAcc(s, i + 1, <<>>,
                       IF cur = <<>> THEN acc ELSE Append(acc, cur))
         ELSE SplitAcc(s, i + 1, Append(cur, s[i]), acc)

\* str.split(): the maximal runs of non-whitespace, in order
Split(s) == SplitAcc(s, 1, <<>>, <<>>)

RECURSIVE Join(_)
\* ' '.join(parts)
Join(parts) ==
    IF parts = <<>> THEN <<>>
    ELSE IF Len(parts) = 1 THEN parts[1]
    ELSE parts[1] \o <<Ch.sp>> \o Join(Tail(parts))

\* str.lower(): Latin capitals fold, caseless scripts are left alone
Lower(s) == [i \in 1..Len(s) |-> IF s[i] \in 65..90 THEN s[i] + 32 ELSE s[i]]

IsPunctuation(ch) == ch \in Punctuation

RemovePunctuation(s) == SelectSeq(s, LAMBDA ch : ~IsPunctuation(ch))

ReplaceFinals(s) ==
    [i \in 1..Len(s) |->
        IF s[i] \in FinalLetters THEN final_to_normal[s[i]] ELSE s[i]]

RECURSIVE LStrip(_)
LStrip(s) ==
    IF s # <<>> /\ s[1] \in Whitespace THEN LStrip(Tail(s)) ELSE s

RECURSIVE RStrip(_)
RStrip(s) ==
    IF s # <<>> /\ s[Len(s)] \in Whitespace
    THEN RStrip(SubSeq(s, 1, Len(s) - 1)) ELSE s

\* str.strip()
Strip(s) == RStrip(LStrip(s))

Reversed(parts) == [i \in 1..Len(parts) |-> parts[Len(parts) + 1 - i]]

\* s.startswith(prefix)
StartsWith(s, prefix) ==
    /\ Len(prefix) <= Len(s)
    /\ SubSeq(s, 1, Len(prefix)) = prefix

\* Python truthiness of an Optional[str]
IsFalsy(s) == s = None \/ s = <<>>

-----------------------------------------------------------------------------
(* NameMatchingEngine._normalize_name                                      *)

_normalize_name(s) ==
    IF IsFalsy(s) THEN <<>>
    ELSE Strip(ReplaceFinals(RemovePunctuation(Lower(Join(Split(s))))))

-----------------------------------------------------------------------------
(* Scores.  Every score the engine produces on the names of this model is  *)
(* a multiple of 1 / ScoreScale: similarity ratios have denominators up to *)
(* 16 and the constants of the code are multiples of 0.05.                 *)

ScoreScale == 100 * (16 * 9 * 5 * 7 * 11 * 13)

\* n / d as a score
Frac(n, d) == (n * ScoreScale) \div d

\* the float literal h / 100
Hundredths(h) == h * (ScoreScale \div 100)

Max(x, y) == IF x >= y THEN x ELSE y

Min(x, y) == IF x <= y THEN x ELSE y

Abs(x) == IF x < 0 THEN -x ELSE x

ToSet(seq) == {seq[i] : i \in 1..Len(seq)}

-----------------------------------------------------------------------------
(* rapidfuzz.fuzz.ratio and rapidfuzz.fuzz.partial_ratio, divided by 100   *)

RECURSIVE LCS(_, _)
\* length of a longest common subsequence
LCS(s, t) ==
    IF s = <<>> \/ t = <<>> THEN 0
    ELSE IF s[1] = t[1] THEN 1 + LCS(Tail(s), Tail(t))
    ELSE Max(LCS(Tail(s), t), LCS(s, Tail(t)))

\* normalised Indel similarity: 1 - (l1 + l2 - 2 LCS) / (l1 + l2)
ratio(s1, s2) ==
    IF Len(s1) + Len(s2) = 0 THEN ScoreScale
    ELSE Frac(2 * LCS(s1, s2), Len(s1) + Len(s2))

SetMax(S) == CHOOSE x \in S : \A y \in S : y <= x

\* the alignments of the shorter string that partial_ratio scores: every
\* window of its length in the longer string, and the shorter prefixes and
\* suffixes of the longer string
Windows(shorter, longer) ==
    LET l1 == Len(shorter)
        l2 == Len(longer)
    IN  {SubSeq(longer, 1, i) : i \in 1..(l1 - 1)}
        \cup {SubSeq(longer, i, i + l1 - 1) : i \in 1..(l2 - l1 + 1)}
        \cup {SubSeq(longer, i, l2) : i \in (l2 - l1 + 2)..l2}

partial_ratio_impl(shorter, longer) ==
    IF shorter = <<>> THEN 0
    ELSE SetMax({0} \cup {ratio(shorter, w) : w \in Windows(shorter, longer)})

partial_ratio(s1, s2) ==
    IF s1 = <<>> /\ s2 = <<>> THEN ScoreScale
    ELSE IF Len(s1) < Len(s2) THEN partial_ratio_impl(s1, s2)
    ELSE IF Len(s2) < Len(s1) THEN partial_ratio_impl(s2, s1)
    ELSE Max(partial_ratio_impl(s1, s2), partial_ratio_impl(s2, s1))

-----------------------------------------------------------------------------
(* The four strategies.  payer is the normalised payer name; tenant_name   *)
(* and tenant_full_name are the raw names of the candidate.                *)

_exact_match(payer, tenant_name, tenant_full_name) ==
    LET normalized_tenant == _normalize_name(tenant_name)
        normalized_full == _normalize_name(tenant_full_name)
    IN  IF payer = normalized_tenant \/ payer = normalized_full
        THEN ScoreScale ELSE 0

_reversed_name_match(payer, tenant_name, tenant_full_name) ==
    LET payer_parts == Split(payer)
        tenant_str == _normalize_name(tenant_name)
        full_str == _normalize_name(tenant_full_name)
        tenant_parts == Split(tenant_str)
        reversed_payer == Join(Reversed(payer_parts))
        reversed_tenant == Join(Reversed(tenant_parts))
    IN  IF Len(payer_parts) >= 2 /\ reversed_payer = tenant_str
        THEN Hundredths(95)
        ELSE IF /\ Len(payer_parts) >= 2
                /\ \/ StartsWith(reversed_payer, tenant_str)
                   \/ StartsWith(tenant_str, reversed_payer)
        THEN Hundredths(85)
        ELSE IF /\ Len(payer_parts) >= 2
                /\ \/ StartsWith(reversed_payer, full_str)
                   \/ StartsWith(full_str, reversed_payer)
        THEN Hundredths(85)
        ELSE IF Len(tenant_parts) >= 2 /\ payer = reversed_tenant
        THEN Hundredths(95)
        ELSE 0

_fuzzy_match(payer, tenant_name, tenant_full_name) ==
    LET score_name == ratio(payer, _normalize_name(tenant_name))
        score_full == ratio(payer, _normalize_name(tenant_full_name))
        best_score == Max(score_name, score_full)
        partial_name == partial_ratio(payer, _normalize_name(tenant_name))
        partial_full == partial_ratio(payer, _normalize_name(tenant_full_name))
        partial_score == Max(partial_name, partial_full)
    IN  (7 * (best_score \div 10)) + (3 * (partial_score \div 10))

jaccard(set1, set2) ==
    IF set1 = {} \/ set2 = {} THEN 0
    ELSE LET intersection == Cardinality(set1 \cap set2)
             union == Cardinality(set1 \cup set2)
         IN  IF union > 0 THEN Frac(intersection, union) ELSE 0

\* first is list(payer_tokens)[0]: the element the set iterates first
_token_based_match(payer, tenant_name, tenant_full_name, first) ==
    LET payer_tokens == ToSet(Split(payer))
        tenant_tokens == ToSet(Split(_normalize_name(tenant_name)))
        full_tokens == ToSet(Split(_normalize_name(tenant_full_name)))
        score_tenant == jaccard(payer_tokens, tenant_tokens)
        score_full == jaccard(payer_tokens, full_tokens)
        best_score == Max(score_tenant, score_full)
    IN  IF /\ payer_tokens # {}
           /\ tenant_tokens # {}
           /\ (first \in tenant_tokens \/ first \in full_tokens)
        THEN Min(best_score + Hundredths(15), ScoreScale)
        ELSE best_score

-----------------------------------------------------------------------------
(* NameMatchingEngine.match_transaction_to_tenants                         *)

\* tenant.get('full_name', tenant_name) of a dict without the key
Absent == <<-2>>

NoTenant == 0

\* NameMatchingEngine(confidence_threshold=0.7)
confidence_threshold == Hundredths(70)

\* 1.0 shekel; amounts are counted in half shekels
AmountTolerance == 2

\* the list of strategies without the two that compare tokens
strategiesCharacterOnly == <<"exact", "fuzzy">>

strategies == <<"exact", "reversed_name", "fuzzy", "token_based">>

Methods == ToSet(strategies) \cup {"amount", "none"}

matcher(method, payer, tenant_name, tenant_full_name, first) ==
    CASE method = "exact" ->
            _exact_match(payer, tenant_name, tenant_full_name)
      [] method = "reversed_name" ->
            _reversed_name_match(payer, tenant_name, tenant_full_name)
      [] method = "fuzzy" ->
            _fuzzy_match(payer, tenant_name, tenant_full_name)
      [] method = "token_based" ->
            _token_based_match(payer, tenant_name, tenant_full_name, first)

tenant_name_of(tenant) == tenant.name

tenant_full_name_of(tenant) ==
    IF tenant.full_name = Absent THEN tenant.name ELSE tenant.full_name

\* the score of strategy j on the i-th tenant of the roster
PairScore(payer, roster, i, j, first) ==
    matcher(strategies[j], payer, tenant_name_of(roster[i]),
            tenant_full_name_of(roster[i]), first)

\* the comparison of the loop body with >= for >
UpdateBestLastWins(best, score, tenant_id, method) ==
    IF score >= best.score
    THEN [match |-> tenant_id, score |-> score, method |-> method]
    ELSE best

\* one evaluation of the body of the inner loop
UpdateBest(best, score, tenant_id, method) ==
    IF score > best.score
    THEN [match |-> tenant_id, score |-> score, method |-> method]
    ELSE best

RECURSIVE SelectLoop(_, _, _, _, _, _)
\* the two nested loops, from tenant i and strategy j on
SelectLoop(payer, roster, i, j, best, first) ==
    IF i > Len(roster) THEN best
    ELSE IF j > Len(strategies)
    THEN SelectLoop(payer, roster, i + 1, 1, best, first)
    ELSE SelectLoop(payer, roster, i, j + 1,
                    UpdateBest(best, PairScore(payer, roster, i, j, first),
                               roster[i].id, strategies[j]),
                    first)

InitialBest == [match |-> NoTenant, score |-> 0, method |-> "none"]

\* the loop run on the payer name as given, not normalised
SelectBestRaw(payer, roster, first) ==
    SelectLoop(payer, roster, 1, 1, InitialBest, first)

SelectBest(payer, roster, first) ==
    SelectLoop(_normalize_name(payer), roster, 1, 1, InitialBest, first)

\* Python truthiness of an Optional[float]
AmountTruthy(amount) == amount # NoAmount /\ amount # 0

AmountsAgree(expected, actual) ==
    /\ AmountTruthy(expected)
    /\ AmountTruthy(actual)
    /\ Abs(expected - actual) < AmountTolerance

\* the boost without its cap at 1.0
AmountBoostUncapped(best, expected, actual) ==
    IF AmountsAgree(expected, actual)
    THEN [match |-> best.match,
          score |-> best.score + Hundredths(20),
          method |-> IF best.method = "none" THEN "amount" ELSE best.method]
    ELSE best

AmountBoost(best, expected, actual) ==
    IF AmountsAgree(expected, actual)
    THEN [match |-> best.match,
          score |-> Min(best.score + Hundredths(20), ScoreScale),
          method |-> IF best.method = "none" THEN "amount" ELSE best.method]
    ELSE best

\* a decision below the threshold that forgets the best score and method
DecideForgetful(best) ==
    IF best.score >= confidence_threshold
    THEN best
    ELSE [match |-> NoTenant, score |-> 0, method |-> "none"]

Decide(best) ==
    IF best.score >= confidence_threshold
    THEN best
    ELSE [match |-> NoTenant, score |-> best.score, method |-> best.method]

\* the amount boost and the threshold applied before the guard on the inputs
ReturnUnguarded(payer, roster, best, expected, actual) ==
    Decide(AmountBoost(best, expected, actual))

\* the function after its loop: best is what the loop computed
Return(payer, roster, best, expected, actual) ==
    IF IsFalsy(payer) \/ roster = <<>>
    THEN [match |-> NoTenant, score |-> 0, method |-> "none"]
    ELSE Decide(AmountBoost(best, expected, actual))

match_transaction_to_tenants(payer, roster, expected, actual, first) ==
    Return(payer, roster, SelectBest(payer, roster, first), expected, actual)

-----------------------------------------------------------------------------
(* NameMatchingEngine.suggest_matches                                      *)

RECURSIVE InsertDescendingUnstable(_, _)
\* an insertion that puts an entry before the entries of equal score
InsertDescendingUnstable(sorted, entry) ==
    IF sorted = <<>> THEN <<entry>>
    ELSE IF sorted[1].score > entry.score
    THEN <<sorted[1]>> \o InsertDescendingUnstable(Tail(sorted), entry)
    ELSE <<entry>> \o sorted

RECURSIVE InsertDescending(_, _)
\* position of entry in a list sorted by descending score: after every
\* entry whose score is at least as high (list.sort is stable)
InsertDescending(sorted, entry) ==
    IF sorted = <<>> THEN <<entry>>
    ELSE IF sorted[1].score >= entry.score
    THEN <<sorted[1]>> \o InsertDescending(Tail(sorted), entry)
    ELSE <<entry>> \o sorted

RECURSIVE SortDescending(_)
\* suggestions.sort(key=lambda x: x[1], reverse=True)
SortDescending(list) ==
    IF list = <<>> THEN <<>>
    ELSE InsertDescending(SortDescending(SubSeq(list, 1, Len(list) - 1)),
                          list[Len(list)])

\* list[:n]
SliceTo(list, n) ==
    IF n >= 0 THEN SubSeq(list, 1, Min(n, Len(list)))
    ELSE SubSeq(list, 1, Max(Len(list) + n, 0))

RECURSIVE Collect(_, _, _, _)
\* the loop over the roster, from tenant i on
Collect(payer, roster, i, first) ==
    IF i > Len(roster) THEN <<>>
    ELSE LET d == match_transaction_to_tenants(payer, <<roster[i]>>,
                                               NoAmount, NoAmount, first)
         IN  (IF d.score > 0
              THEN <<[id |-> roster[i].id, score |-> d.score,
                      name |-> tenant_name_of(roster[i]),
                      method |-> d.method]>>
              ELSE <<>>)
             \o Collect(payer, roster, i + 1, first)

suggest_matches(payer, roster, n, first) ==
    SliceTo(SortDescending(Collect(payer, roster, 1, first)), n)

-----------------------------------------------------------------------------
(* Inputs.                                                                 *)

MaxNormLen == 5

MaxRoster == 2

MaxTopN == 3

Strings(alphabet, n) == UNION {[1..k -> alphabet] : k \in 0..n}

\* a space, a stripped punctuation mark, a capital, a letter, a Hebrew
\* final letter and its medial form
NormAlphabet == {Ch.sp, Ch.dot, Ch.A, Ch.a, Ch.nun_final, Ch.nun}

NormInputs == {None} \cup Strings(NormAlphabet, MaxNormLen)

\* None, '', 'a b', 'b a', 'a', 'c d', 'A  bן.' and '.'
PayerNames ==
    {None, <<>>,
     <<Ch.a, Ch.sp, Ch.b>>, <<Ch.b, Ch.sp, Ch.a>>, <<Ch.a>>,
     <<Ch.c, Ch.sp, Ch.d>>,
     <<Ch.A, Ch.sp, Ch.sp, Ch.b, Ch.nun_final, Ch.dot>>, <<Ch.dot>>}

\* '', 'a b', 'b a' and 'b'
TenantNames ==
    {<<>>, <<Ch.a, Ch.sp, Ch.b>>, <<Ch.b, Ch.sp, Ch.a>>, <<Ch.b>>}

\* no full name, and 'a bן'
FullNames == {Absent, <<Ch.a, Ch.sp, Ch.b, Ch.nun_final>>}

TenantShapes == [name : TenantNames, full_name : FullNames]

\* rosters of at most MaxRoster tenants; a tenant's id is its position
Rosters ==
    UNION {{[i \in 1..n |-> [id |-> i, name |-> f[i].name,
                             full_name |-> f[i].full_name]] :
                f \in [1..n -> TenantShapes]} : n \in 0..MaxRoster}

\* (expected_amount, actual_amount) in half shekels: neither, only the
\* actual one (the call of the statement upload), only the expected one,
\* 0 and 0.5, 100 and 100.5, 100 and 101
AmountPairs ==
    {<<NoAmount, NoAmount>>, <<NoAmount, 201>>, <<200, NoAmount>>,
     <<0, 1>>, <<200, 201>>, <<200, 202>>}

\* the tokens list(set(payer.split()))[0] may yield: any token of the
\* normalised payer name (the iteration order of a set of strings depends on
\* the hash seed of the process); <<>> when there is none
FirstChoices(payer) ==
    LET tokens == ToSet(Split(_normalize_name(payer)))
    IN  IF tokens = {} THEN {<<>>} ELSE tokens

-----------------------------------------------------------------------------
(* Specification of the normaliser: normalise a name, then its result.     *)

NoDecision == [match |-> NoTenant, score |-> 0, method |-> "none"]

MatchIdle ==
    /\ payer_name = None
    /\ tenants = <<>>
    /\ expected_amount = NoAmount
    /\ actual_amount = NoAmount
    /\ hash_first = <<>>
    /\ selected = NoDecision
    /\ decision = NoDecision
    /\ baseline = NoDecision
    /\ evaluations = 0

NormIdle ==
    /\ name = None
    /\ normalized = <<>>
    /\ renormalized = <<>>

SuggestIdle ==
    /\ top_n = 0
    /\ suggestions = <<>>

\* the parser and the reconciler are not in use
PayerIdle ==
    /\ description = None
    /\ extracted = None

ParseIdle ==
    /\ rows = <<>>
    /\ coerce_keeps = FALSE
    /\ transactions = <<>>
    /\ metadata = <<>>

ReconIdle ==
    /\ active_tenants = <<>>
    /\ building_default = <<>>
    /\ period_transactions = <<>>
    /\ statuses = <<>>
    /\ summary = <<>>

PhoneIdle ==
    /\ national = <<>>
    /\ phone = None
    /\ phone_out = None
    /\ phone_again = None

ImportIdle ==
    /\ sheet = <<>>
    /\ db_tenants = <<>>
    /\ response = <<>>

LedgerIdle ==
    /\ tenant_table = {}
    /\ transaction_table = <<>>
    /\ name_mapping_table = <<>>
    /\ request = <<>>
    /\ requests = 0
    /\ sessions = <<>>

ThresholdIdle ==
    /\ threshold = 0

ReminderIdle ==
    /\ phones = <<>>
    /\ only_unpaid = FALSE
    /\ messages = <<>>

OthersIdle ==
    /\ PayerIdle /\ ParseIdle /\ ReconIdle /\ PhoneIdle /\ ImportIdle
    /\ LedgerIdle /\ ThresholdIdle /\ ReminderIdle

InitNormalize ==
    /\ OthersIdle
    /\ pc = "input"
    /\ name \in NormInputs
    /\ normalized = <<>>
    /\ renormalized = <<>>
    /\ MatchIdle
    /\ SuggestIdle

Normalize ==
    /\ pc = "input"
    /\ normalized' = _normalize_name(name)
    /\ pc' = "once"
    /\ UNCHANGED <<name, renormalized, matchVars, suggestVars, payerVars,
                   parseVars, reconVars, phoneVars, importVars, ledgerVars,
                   thresholdVars, reminderVars>>

Renormalize ==
    /\ pc = "once"
    /\ renormalized' = _normalize_name(normalized)
    /\ pc' = "twice"
    /\ UNCHANGED <<name, normalized, matchVars, suggestVars, payerVars,
                   parseVars, reconVars, phoneVars, importVars, ledgerVars,
                   thresholdVars, reminderVars>>

NextNormalize == Normalize \/ Renormalize

SpecNormalize == InitNormalize /\ [][NextNormalize]_vars

-----------------------------------------------------------------------------
(* Specification of the matcher: one call with the amounts, then the same  *)
(* call without them.                                                      *)

InitMatch ==
    /\ OthersIdle
    /\ pc = "start"
    /\ payer_name \in PayerNames
    /\ tenants \in Rosters
    /\ \E amounts \in AmountPairs :
           /\ expected_amount = amounts[1]
           /\ actual_amount = amounts[2]
    /\ hash_first \in FirstChoices(payer_name)
    /\ selected = NoDecision
    /\ decision = NoDecision
    /\ baseline = NoDecision
    /\ evaluations = 0
    /\ NormIdle
    /\ SuggestIdle

Degenerate == IsFalsy(payer_name) \/ tenants = <<>>

MatchCall ==
    /\ pc = "start"
    /\ selected' = IF Degenerate THEN NoDecision
                   ELSE SelectBest(payer_name, tenants, hash_first)
    /\ evaluations' = IF Degenerate THEN 0
                      ELSE Len(tenants) * Len(strategies)
    /\ decision' = Return(payer_name, tenants, selected',
                          expected_amount, actual_amount)
    /\ pc' = "matched"
    /\ UNCHANGED <<payer_name, tenants, expected_amount, actual_amount,
                   hash_first, baseline, normVars, suggestVars, payerVars,
                   parseVars, reconVars, phoneVars, importVars, ledgerVars,
                   thresholdVars, reminderVars>>

BaselineCall ==
    /\ pc = "matched"
    \* the loop reads no amount, so the call without amounts selects the
    \* same best match
    /\ baseline' = Return(payer_name, tenants, selected, NoAmount, NoAmount)
    /\ pc' = "done"
    /\ UNCHANGED <<payer_name, tenants, expected_amount, actual_amount,
                   hash_first, selected, decision, evaluations, normVars,
                   suggestVars, payerVars, parseVars, reconVars, phoneVars,
                   importVars, ledgerVars, thresholdVars, reminderVars>>

NextMatch == MatchCall \/ BaselineCall

Spec == InitMatch /\ [][NextMatch]_vars

-----------------------------------------------------------------------------
(* Specification of the suggestions: one call of suggest_matches.          *)

InitSuggest ==
    /\ OthersIdle
    /\ pc = "start"
    /\ payer_name \in PayerNames
    /\ tenants \in Rosters
    /\ hash_first \in FirstChoices(payer_name)
    /\ top_n \in 0..MaxTopN
    /\ suggestions = <<>>
    /\ expected_amount = NoAmount
    /\ actual_amount = NoAmount
    /\ selected = NoDecision
    /\ decision = NoDecision
    /\ baseline = NoDecision
    /\ evaluations = 0
    /\ NormIdle

SuggestCall ==
    /\ pc = "start"
    /\ suggestions' = suggest_matches(payer_name, tenants, top_n, hash_first)
    /\ pc' = "suggested"
    /\ UNCHANGED <<top_n, matchVars, normVars, payerVars, parseVars,
                   reconVars, phoneVars, importVars, ledgerVars,
                   thresholdVars, reminderVars>>

NextSuggest == SuggestCall

SpecSuggest == InitSuggest /\ [][NextSuggest]_vars

-----------------------------------------------------------------------------
(* Claims about the normaliser (SpecNormalize).                            *)

HasFinalLetter(s) == \E i \in 1..Len(s) : s[i] \in FinalLetters

\* C1: normalize is idempotent and total: normalising the result again
\* changes nothing, the result holds no Hebrew final letter, and an empty or
\* absent name gives the empty string; also when a stripped punctuation mark
\* stands between two spaces.
C1_NormalizeIdempotent ==
    /\ pc \in {"once", "twice"} =>
          /\ ~HasFinalLetter(normalized)
          /\ IsFalsy(name) => normalized = <<>>
    /\ pc = "twice" => renormalized = normalized

-----------------------------------------------------------------------------
(* Claims about match_transaction_to_tenants (Spec).                       *)

Called == pc \in {"matched", "done"}

\* the amounts are both supplied and less than 1.0 apart
SuppliedAndClose ==
    /\ expected_amount # NoAmount
    /\ actual_amount # NoAmount
    /\ Abs(expected_amount - actual_amount) < AmountTolerance

\* C2: with an empty payer name or an empty roster the call returns
\* (none, 0.0, 'none') and evaluates no strategy, whatever the amounts are.
C2_DegenerateIsNone ==
    (Called /\ Degenerate) =>
        /\ decision = [match |-> NoTenant, score |-> 0, method |-> "none"]
        /\ evaluations = 0

\* an empty payer name against a non-empty roster, and an empty roster
\* against a payer name, each with amounts that agree
C2_Witness ==
    /\ Called
    /\ SuppliedAndClose
    /\ expected_amount > 0
    /\ \/ payer_name = <<>> /\ tenants # <<>>
       \/ tenants = <<>> /\ ~IsFalsy(payer_name)

\* the (tenant x strategy) pairs in evaluation order: pair k is strategy
\* StrategyOf(k) on tenant TenantOf(k)
NumStrategies == Len(strategies)

Pairs == 1..(Len(tenants) * NumStrategies)

TenantOf(k) == ((k - 1) \div NumStrategies) + 1

StrategyOf(k) == ((k - 1) % NumStrategies) + 1

ScoreOfPair(k) ==
    PairScore(_normalize_name(payer_name), tenants, TenantOf(k),
              StrategyOf(k), hash_first)

\* the scores of all pairs, in evaluation order
PairScores == [k \in Pairs |-> ScoreOfPair(k)]

MaxOf(scores) == SetMax({0} \cup {scores[k] : k \in DOMAIN scores})

\* the first position of scores that holds their maximum
FirstMaxOf(scores) ==
    CHOOSE k \in DOMAIN scores :
        /\ scores[k] = MaxOf(scores)
        /\ \A h \in DOMAIN scores : scores[h] = MaxOf(scores) => k <= h

\* C3 as stated: for a non-empty payer and roster the pre-boost confidence
\* is the maximum score over all (tenant x strategy) pairs, and the selected
\* tenant and method are those of the first pair attaining that maximum.
C3_FirstMaxSelected ==
    (pc = "matched" /\ ~Degenerate) =>
        LET scores == PairScores
            first == FirstMaxOf(scores)
        IN  /\ selected.score = MaxOf(scores)
            /\ selected.match = tenants[TenantOf(first)].id
            /\ selected.method = strategies[StrategyOf(first)]

\* C3 amended: the pre-boost confidence is the maximum score over all pairs;
\* when that maximum is above 0 the selected tenant and method are those of
\* the first pair attaining it, and when every pair scores 0 no tenant is
\* selected and the method is 'none'.
C3_FirstPositiveMaxSelected ==
    (pc = "matched" /\ ~Degenerate) =>
        LET scores == PairScores
            first == FirstMaxOf(scores)
        IN  /\ selected.score = MaxOf(scores)
            /\ MaxOf(scores) > 0 =>
                  /\ selected.match = tenants[TenantOf(first)].id
                  /\ selected.method = strategies[StrategyOf(first)]
            /\ MaxOf(scores) = 0 =>
                  /\ selected.match = NoTenant
                  /\ selected.method = "none"

\* two tenants attain the same positive maximum and the earlier one is the
\* one selected
C3_Witness ==
    /\ pc = "matched"
    /\ ~Degenerate
    /\ selected.score > 0
    /\ selected.match = tenants[1].id
    /\ Len(tenants) >= 2
    /\ \E j \in 1..NumStrategies :
          PairScore(_normalize_name(payer_name), tenants, 2, j, hash_first)
              = selected.score

\* C4: the decision carries the selected tenant only if the (possibly
\* boosted) score reaches the threshold; below it the decision has no tenant
\* but still reports the best score and the best method.
C4_ThresholdGate ==
    (Called /\ ~Degenerate) =>
        LET boosted == IF AmountsAgree(expected_amount, actual_amount)
                       THEN Min(selected.score + Hundredths(20), ScoreScale)
                       ELSE selected.score
        IN  /\ decision.score = boosted
            /\ decision.match # NoTenant => boosted >= Hundredths(70)
            /\ boosted >= Hundredths(70) => decision.match = selected.match
            /\ boosted < Hundredths(70) =>
                  /\ decision.match = NoTenant
                  /\ decision.method \in {selected.method, "amount"}
                  /\ selected.method # "none" =>
                        decision.method = selected.method

\* a candidate was found but stays below the threshold: the decision has no
\* tenant and reports the candidate's score and method
C4_Witness ==
    /\ Called
    /\ selected.match # NoTenant
    /\ decision.match = NoTenant
    /\ decision.score > 0
    /\ decision.method = selected.method

\* C5: whenever both amounts are supplied (any numbers, 0 included) and are
\* less than 1.0 apart, the returned confidence is the pre-boost best score
\* plus 0.2, capped at 1.0, and a pre-boost (0.0, 'none') becomes method
\* 'amount'; otherwise score and method are the pre-boost ones.
C5_BoostWheneverSupplied ==
    (pc = "matched" /\ ~Degenerate) =>
        IF SuppliedAndClose
        THEN /\ decision.score =
                    Min(selected.score + Hundredths(20), ScoreScale)
             /\ (selected.score = 0 /\ selected.method = "none") =>
                    decision.method = "amount"
        ELSE /\ decision.score = selected.score
             /\ decision.method = selected.method

\* C6: the confidence returned with a matching amount pair is at least the
\* confidence of the same call without amounts, and every returned
\* confidence lies in [0, 1].
C6_BoostMonotoneAndBounded ==
    pc = "done" =>
        /\ decision.score >= baseline.score
        /\ decision.score \in 0..ScoreScale
        /\ baseline.score \in 0..ScoreScale

\* agreeing amounts raised the confidence, up to the cap of 1.0
C6_Witness ==
    /\ pc = "done"
    /\ SuppliedAndClose
    /\ decision.score > baseline.score
    /\ baseline.score + Hundredths(20) > ScoreScale
    /\ decision.score = ScoreScale

-----------------------------------------------------------------------------
(* Claims about which tenant is matched (Spec).                            *)

NormalizedPayer == _normalize_name(payer_name)

NormalizedName(i) == _normalize_name(tenant_name_of(tenants[i]))

NormalizedFull(i) == _normalize_name(tenant_full_name_of(tenants[i]))

Tokens(s) == ToSet(Split(s))

\* the display name or the full name of tenant i has the tokens of the
\* payer name, in any order
SameTokens(i) ==
    \/ Tokens(NormalizedName(i)) = Tokens(NormalizedPayer)
    \/ Tokens(NormalizedFull(i)) = Tokens(NormalizedPayer)

FirstSameTokens ==
    CHOOSE i \in 1..Len(tenants) :
        SameTokens(i) /\ \A k \in 1..(i - 1) : ~SameTokens(k)

ReversedPayerOf(i) ==
    LET payer_parts == Split(NormalizedPayer)
    IN  /\ Len(payer_parts) >= 2
        /\ \/ Reversed(payer_parts) = Split(NormalizedName(i))
           \/ Reversed(payer_parts) = Split(NormalizedFull(i))

Letters(s) == ToSet(s) \ Whitespace

\* the payer name has letters and shares none (hence no token) with any
\* display name or full name of the roster
Dissimilar ==
    /\ Letters(NormalizedPayer) # {}
    /\ \A i \in 1..Len(tenants) :
          Letters(NormalizedPayer)
              \cap (Letters(NormalizedName(i)) \cup Letters(NormalizedFull(i)))
            = {}

\* C9: a payer name completely dissimilar to every tenant name yields no
\* tenant at the default threshold, for every roster, also one with a tenant
\* whose display name or full name is the empty string.
C9_DissimilarIsNone ==
    (pc = "matched" /\ Dissimilar) => decision.match = NoTenant

-----------------------------------------------------------------------------
(* Claims about suggest_matches (SpecSuggest).                             *)

\* the best score of the tenant with this id over the four strategies
OwnBestScore(id) ==
    MaxOf([j \in 1..NumStrategies |->
              PairScore(NormalizedPayer, tenants, id, j, hash_first)])

\* C10: suggest_matches returns at most top_n entries, ordered by
\* non-increasing confidence, entries of equal confidence in roster order,
\* each with the tenant's own best strategy score (no amount boost).
C10_SuggestTopNSorted ==
    pc = "suggested" =>
        /\ Len(suggestions) <= top_n
        /\ \A i \in 1..(Len(suggestions) - 1) :
              /\ suggestions[i].score >= suggestions[i + 1].score
              /\ suggestions[i].score = suggestions[i + 1].score =>
                    suggestions[i].id < suggestions[i + 1].id
        /\ \A i \in 1..Len(suggestions) :
              /\ suggestions[i].id \in 1..Len(tenants)
              /\ suggestions[i].score = OwnBestScore(suggestions[i].id)

\* two tenants of equal confidence are both suggested, in roster order
C10_Witness ==
    /\ pc = "suggested"
    /\ Len(suggestions) = 2
    /\ top_n = 2
    /\ suggestions[1].score = suggestions[2].score
    /\ suggestions[1].id = 1

-----------------------------------------------------------------------------
(* Claims about determinism (Spec).                                        *)

\* C11: matching is deterministic: the decision of a call depends only on
\* the payer name, the roster, the amounts and the threshold, so the same
\* call returns the same (tenant, confidence, method) whichever token the
\* iteration over the unordered payer token set yields first.
C11_OrderIndependent ==
    pc = "matched" =>
        \A first \in FirstChoices(payer_name) :
            match_transaction_to_tenants(payer_name, tenants,
                                         expected_amount, actual_amount,
                                         first) = decision

-----------------------------------------------------------------------------
(* BankStatementParser of backend/app/services/excel_parser.py.            *)
(*                                                                         *)
(* A cell of the data frame is a record [kind, value]: kind "nan" is an    *)
(* empty cell, "datetime" a date cell whose value is <<year, month, day>>, *)
(* "num" a numeric cell whose value is <<amount>> in half shekels and      *)
(* "str" a text cell whose value is its code points.  An Optional[float]   *)
(* is <<>> for None and <<amount>> otherwise; an Optional[datetime] is     *)
(* <<>> for None and <<year, month, day>> otherwise.                       *)

Sym == [hyphen |-> 45, point |-> 46, slash |-> 47, zero |-> 48, nine |-> 57,
        five |-> 53, x |-> 120]

BANK_NAMES ==
    << <<1492, 1508, 1493, 1506, 1500, 1497, 1501>>,
       <<1500, 1488, 1493, 1502, 1497>>,
       <<1491, 1497, 1505, 1511, 1493, 1504, 1496>>,
       <<1502, 1494, 1512, 1495, 1497>>,
       <<1489, 1497, 1504, 1500, 1488, 1493, 1502, 1497>>,
       <<1508, 1493, 1506, 1500, 1497, 1501>>,
       <<1488, 1497, 1490, 1493, 1491>>,
       <<1502, 1512, 1499, 1504, 1514, 1497, 1500>>,
       <<1497, 1492, 1489>>,
       <<1488, 1493, 1510, 1512, 32, 1492, 1495, 1497, 1497, 1500>>,
       <<1489, 1504, 1511>>,
       <<66, 97, 110, 107>> >>

FEE_KEYWORDS ==
    << <<1502, 1506, 34, 1502>>,
       <<1506, 1502, 1500, 1492>>,
       <<1506, 1502, 1500, 1514>>,
       <<1491, 1502, 1497, 32, 1504, 1497, 1492, 1493, 1500>>,
       <<1504, 1497, 1492, 1493, 1500, 32, 1495, 1513, 1489, 1493, 1503>>,
       <<1511, 1504, 1505>>,
       <<1488, 1490, 1512, 1492>>,
       <<1489, 1504, 1511, 1488, 1493, 1514>>,
       <<1505, 1492, 34, 1499, 32, 1508, 1506, 1493, 1500, 1493, 1514>>,
       <<1505, 1492, 34, 1499>> >>

\* the markers of a summary row in _filter_transactions
SummaryMarkers ==
    << <<1505, 1492, 34, 1499>>,
       <<1505, 1497, 1499, 1493, 1501>>,
       <<1505, 1492, 1524, 1499>> >>

\* sub in s
Contains(s, sub) ==
    \E i \in 1..(Len(s) - Len(sub) + 1) :
        SubSeq(s, i, i + Len(sub) - 1) = sub

\* any(keyword in s for keyword in keywords)
ContainsAny(s, keywords) ==
    \E k \in 1..Len(keywords) : Contains(s, keywords[k])

RECURSIVE RemoveAll(_, _)
\* s.replace(sub, ''): the occurrences of sub are removed left to right
RemoveAll(s, sub) ==
    IF Len(s) < Len(sub) \/ s = <<>> THEN s
    ELSE IF StartsWith(s, sub)
         THEN RemoveAll(SubSeq(s, Len(sub) + 1, Len(s)), sub)
         ELSE <<s[1]>> \o RemoveAll(Tail(s), sub)

\* the position of the first and of the last hyphen of s
FirstHyphen(s) ==
    CHOOSE k \in 1..Len(s) :
        s[k] = Sym.hyphen /\ \A h \in 1..(k - 1) : s[h] # Sym.hyphen

LastHyphen(s) ==
    CHOOSE k \in 1..Len(s) :
        s[k] = Sym.hyphen /\ \A h \in (k + 1)..Len(s) : s[h] # Sym.hyphen

re_split_last(s) ==
    LET k == LastHyphen(s)
    IN  <<RStrip(SubSeq(s, 1, k - 1)), LStrip(SubSeq(s, k + 1, Len(s)))>>

\* re.split(r'\s*-\s*', s, maxsplit=1) of a string that holds a hyphen:
\* the text before the first hyphen and its spaces, and the text after them
re_split(s) ==
    LET k == FirstHyphen(s)
    IN  <<RStrip(SubSeq(s, 1, k - 1)), LStrip(SubSeq(s, k + 1, Len(s)))>>

RECURSIVE StripBanks(_, _)
\* the loop over BANK_NAMES from the k-th name on
StripBanks(cleaned, k) ==
    IF k > Len(BANK_NAMES) THEN cleaned
    ELSE StripBanks(Strip(RemoveAll(cleaned, BANK_NAMES[k])), k + 1)

_extract_payer_name(text) ==
    LET collapsed == Join(Split(text))
    IN  IF Contains(collapsed, <<Sym.hyphen>>)
        THEN LET name_part == Strip(re_split(collapsed)[2])
             IN  IF name_part # <<>> THEN name_part ELSE None
        ELSE LET cleaned == StripBanks(collapsed, 1)
             IN  IF cleaned # collapsed THEN cleaned ELSE None

-----------------------------------------------------------------------------
(* Dates and amounts of a cell.                                            *)

NaN == [kind |-> "nan", value |-> <<>>]

IsDigit(ch) == ch \in Sym.zero..Sym.nine

AllDigits(s) == \A i \in 1..Len(s) : IsDigit(s[i])

RECURSIVE DigitsValue(_)
\* the number a string of decimal digits denotes
DigitsValue(s) ==
    IF s = <<>> THEN 0
    ELSE 10 * DigitsValue(SubSeq(s, 1, Len(s) - 1)) + (s[Len(s)] - Sym.zero)

RECURSIVE SplitOnAcc(_, _, _, _, _)
SplitOnAcc(s, sep, i, cur, acc) ==
    IF i > Len(s) THEN Append(acc, cur)
    ELSE IF s[i] = sep
         THEN SplitOnAcc(s, sep, i + 1, <<>>, Append(acc, cur))
         ELSE SplitOnAcc(s, sep, i + 1, Append(cur, s[i]), acc)

\* the fields of s between the occurrences of the character sep
SplitOn(s, sep) == SplitOnAcc(s, sep, 1, <<>>, <<>>)

IsLeap(year) == (year % 4 = 0 /\ year % 100 # 0) \/ year % 400 = 0

DaysIn(month, year) ==
    IF month = 2 THEN (IF IsLeap(year) THEN 29 ELSE 28)
    ELSE IF month \in {4, 6, 9, 11} THEN 30 ELSE 31

\* the century strptime gives a year of two digits
Century(yy) == IF yy < 69 THEN 2000 + yy ELSE 1900 + yy

\* pd.to_datetime(s, format='%d/%m/%y') for year_digits = 2 and
\* pd.to_datetime(s, format='%d/%m/%Y') for year_digits = 4: the date, or
\* <<>> where the call raises
strptime(s, year_digits) ==
    LET fields == SplitOn(s, Sym.slash)
    IN  IF /\ Len(fields) = 3
           /\ \A i \in 1..3 : fields[i] # <<>> /\ AllDigits(fields[i])
           /\ Len(fields[1]) <= 2
           /\ Len(fields[2]) <= 2
           /\ Len(fields[3]) = year_digits
        THEN LET day == DigitsValue(fields[1])
                 month == DigitsValue(fields[2])
                 year == IF year_digits = 2
                         THEN Century(DigitsValue(fields[3]))
                         ELSE DigitsValue(fields[3])
             IN  IF /\ month \in 1..12
                    /\ day \in 1..DaysIn(month, year)
                    /\ year >= 1
                 THEN <<year, month, day>>
                 ELSE <<>>
        ELSE <<>>

_parse_date(date_value) ==
    IF date_value.kind = "nan" THEN <<>>
    ELSE IF date_value.kind = "datetime" THEN date_value.value
    ELSE IF date_value.kind = "str"
         THEN IF strptime(date_value.value, 2) # <<>>
              THEN strptime(date_value.value, 2)
              ELSE strptime(date_value.value, 4)
    ELSE <<>>

\* float(s) in agorot for a decimal numeral of at most two fraction digits,
\* <<>> where float raises
float(s) ==
    LET negative == s # <<>> /\ s[1] = Sym.hyphen
        unsigned == IF negative THEN Tail(s) ELSE s
        parts == SplitOn(unsigned, Sym.point)
        whole == parts[1]
        fraction == IF Len(parts) = 2 THEN parts[2] ELSE <<>>
        cents == IF Len(fraction) = 0 THEN 0
                 ELSE IF Len(fraction) = 1 THEN 10 * DigitsValue(fraction)
                 ELSE DigitsValue(fraction)
    IN  IF /\ Len(parts) <= 2
           /\ AllDigits(whole) /\ AllDigits(fraction)
           /\ Len(whole) + Len(fraction) > 0
           /\ Len(fraction) <= 2
        THEN <<(IF negative THEN -1 ELSE 1)
                  * (100 * DigitsValue(whole) + cents)>>
        ELSE <<>>

_parse_amount(cell) ==
    IF cell.kind = "nan" THEN <<>>
    ELSE IF cell.kind = "num" THEN cell.value
    ELSE IF cell.kind = "str"
         THEN float(Strip(RemoveAll(cell.value, <<Ch.comma>>)))
    ELSE <<>>

\* 'amount and amount > 0' of an Optional[float]
IsPositive(amount) == amount # <<>> /\ amount[1] # 0 /\ amount[1] > 0

_classify_credit_first(text, credit, debit) ==
    IF ContainsAny(text, FEE_KEYWORDS) THEN "fee"
    ELSE IF IsPositive(credit) THEN "payment"
    ELSE IF IsPositive(debit) THEN "transfer"
    ELSE "other"

_classify_transaction(text, credit, debit) ==
    IF ContainsAny(text, FEE_KEYWORDS) THEN "fee"
    ELSE IF IsPositive(debit) THEN "transfer"
    ELSE IF IsPositive(credit) THEN "payment"
    ELSE "other"

-----------------------------------------------------------------------------
(* Rows, the filter, the metadata and parse_excel.                         *)

\* the description of a row after str(...).strip(); <<>> for an empty cell
StrippedDescription(row) ==
    IF row.description.kind = "nan" THEN <<>>
    ELSE Strip(row.description.value)

\* the row passes the three 'continue' statements of _parse_transactions
Admitted(row) ==
    /\ row.description.kind # "nan"
    /\ StrippedDescription(row) # <<>>
    /\ _parse_date(row.activity_date) # <<>>

\* the transaction _parse_transactions builds from an admitted row
TransactionOf(row) ==
    LET text == StrippedDescription(row)
        credit == _parse_amount(row.credit)
        debit == _parse_amount(row.debit)
    IN  [activity_date |-> _parse_date(row.activity_date),
         description |-> text,
         payer_name |-> _extract_payer_name(text),
         credit_amount |-> credit,
         debit_amount |-> debit,
         balance |-> _parse_amount(row.balance),
         transaction_type |-> _classify_transaction(text, credit, debit)]

RECURSIVE _parse_transactions(_)
_parse_transactions(df) ==
    IF df = <<>> THEN <<>>
    ELSE IF Admitted(df[1])
         THEN <<TransactionOf(df[1])>> \o _parse_transactions(Tail(df))
         ELSE _parse_transactions(Tail(df))

_filter_keeps_summary(parsed) ==
    SelectSeq(parsed, LAMBDA trans :
        /\ trans.transaction_type # "fee"
        /\ trans.transaction_type # "transfer")

_filter_transactions(parsed) ==
    SelectSeq(parsed, LAMBDA trans :
        /\ trans.transaction_type # "fee"
        /\ ~ContainsAny(trans.description, SummaryMarkers)
        /\ trans.transaction_type # "transfer")

\* the order of two dates
DateKey(date) == (date[1] * 10000) + (date[2] * 100) + date[3]

\* dates.max() of a non-empty sequence of dates
MaxDate(dates) ==
    CHOOSE latest \in ToSet(dates) :
        \A other \in ToSet(dates) : DateKey(other) <= DateKey(latest)

\* df['activity_date'].dropna()
ValidDates(df) ==
    SelectSeq([i \in 1..Len(df) |-> df[i].activity_date],
              LAMBDA cell : cell.kind # "nan")

\* pd.to_datetime(valid_dates, format='%d/%m/%y', errors='coerce') followed
\* by dropna(): a string is parsed with the two-digit year only, and a
\* datetime cell among the strings is kept or coerced to NaT, which depends
\* on the pandas build (keeps)
CoercedDates(valid_dates, keeps) ==
    LET coerced == [i \in 1..Len(valid_dates) |->
                       IF valid_dates[i].kind = "str"
                       THEN strptime(valid_dates[i].value, 2)
                       ELSE IF keeps THEN valid_dates[i].value ELSE <<>>]
    IN  SelectSeq(coerced, LAMBDA date : date # <<>>)

PeriodOf(dates) ==
    IF dates = <<>> THEN <<>>
    ELSE <<MaxDate(dates)[2], MaxDate(dates)[1]>>

\* the metadata: row_count and period = <<period_month, period_year>>, <<>>
\* when both are None; raised when dates.max() compares a datetime with a
\* string, which is a TypeError
_extract_metadata(df, keeps) ==
    LET valid_dates == ValidDates(df)
    IN  IF valid_dates = <<>>
        THEN [raised |-> FALSE, row_count |-> Len(df), period |-> <<>>]
        ELSE IF valid_dates[1].kind = "str"
        THEN [raised |-> FALSE, row_count |-> Len(df),
              period |-> PeriodOf(CoercedDates(valid_dates, keeps))]
        ELSE IF \E i \in 1..Len(valid_dates) : valid_dates[i].kind = "str"
        THEN [raised |-> TRUE, row_count |-> Len(df), period |-> <<>>]
        ELSE [raised |-> FALSE, row_count |-> Len(df),
              period |-> PeriodOf([i \in 1..Len(valid_dates) |->
                                      valid_dates[i].value])]

\* parse_excel after the file is read: the metadata first, then the rows,
\* then the filter; an exception of _extract_metadata leaves parse_excel
\* before any row is parsed
parse_excel(df, keeps) ==
    LET meta == _extract_metadata(df, keeps)
    IN  IF meta.raised
        THEN [raised |-> TRUE, transactions |-> <<>>, metadata |-> <<>>]
        ELSE [raised |-> FALSE,
              transactions |-> _filter_transactions(_parse_transactions(df)),
              metadata |-> [row_count |-> meta.row_count,
                            period |-> meta.period]]

-----------------------------------------------------------------------------
(* Inputs of the parser.                                                   *)

MaxDescLen == 5

MaxRows == 2

\* a space, a hyphen and two letters
PayerAlphabet == {Ch.sp, Sym.hyphen, Ch.a, Ch.b}

\* 'בנק לאומי  -  ישראל ישראלי'
ScenarioDescription ==
    <<1489, 1504, 1511, 32, 1500, 1488, 1493, 1502, 1497, 32, 32, 45, 32,
      32, 1497, 1513, 1512, 1488, 1500, 32, 1497, 1513, 1512, 1488, 1500,
      1497>>

\* 'בנק a': no hyphen and a bank name
BankDescription == <<1489, 1504, 1511, Ch.sp, Ch.a>>

Descriptions ==
    Strings(PayerAlphabet, MaxDescLen)
        \cup {ScenarioDescription, BankDescription}

Text(s) == [kind |-> "str", value |-> s]

Number(n) == [kind |-> "num", value |-> <<n>>]

Date(year, month, day) == [kind |-> "datetime", value |-> <<year, month, day>>]

\* an empty cell, the date 20 February 2024, and the texts '31/12/23',
\* '16/04/2024' and 'x'
DateCells ==
    {NaN, Date(2024, 2, 20),
     Text(<<51, 49, 47, 49, 50, 47, 50, 51>>),
     Text(<<49, 54, 47, 48, 52, 47, 50, 48, 50, 52>>),
     Text(<<Sym.x>>)}

\* 'a - b'
PlainDescription == Text(<<Ch.a, Ch.sp, Sym.hyphen, Ch.sp, Ch.b>>)

\* an empty cell, '  ', 'a - b', the fee keyword 'עמלה' and the summary
\* marker 'סיכום', which is no fee keyword
DescriptionCells ==
    {NaN, Text(<<Ch.sp, Ch.sp>>), PlainDescription,
     Text(<<1506, 1502, 1500, 1492>>),
     Text(<<1505, 1497, 1499, 1493, 1501>>)}

\* 300.00 as a number, and the texts '1,200' and 'x'
Paid == Number(30000)

PaidText == Text(<<49, Ch.comma, 50, 48, 48>>)

Garbage == Text(<<Sym.x>>)

\* (credit, debit) of a row: a payment, an outgoing transfer, both positive
\* and neither
AmountCells ==
    {<<Paid, NaN>>, <<NaN, Paid>>, <<Paid, Paid>>, <<NaN, NaN>>}

\* (credit, balance) of a row: a payment written as text, a credit that is
\* no number, a negative credit, and a balance that is no number
OddAmountCells ==
    {<<PaidText, NaN>>, <<Garbage, NaN>>, <<Number(-500), NaN>>,
     <<Paid, Garbage>>}

Row(date, text, credit, debit, balance) ==
    [activity_date |-> date, description |-> text, credit |-> credit,
     debit |-> debit, balance |-> balance]

\* the rows: a payment row with every date cell, every description with
\* every pair of amounts, and a plain row with every odd amount
Rows ==
    {Row(date, PlainDescription, Paid, NaN, NaN) : date \in DateCells}
        \cup {Row(Date(2024, 2, 20), text, amounts[1], amounts[2], NaN) :
                 text \in DescriptionCells, amounts \in AmountCells}
        \cup {Row(Date(2024, 2, 20), PlainDescription, odd[1], NaN, odd[2]) :
                 odd \in OddAmountCells}

DataFrames == UNION {[1..n -> Rows] : n \in 0..MaxRows}

-----------------------------------------------------------------------------
(* Specification of the payer extraction: one call of _extract_payer_name. *)

InitPayer ==
    /\ pc = "start"
    /\ description \in Descriptions
    /\ extracted = None
    /\ NormIdle
    /\ MatchIdle
    /\ SuggestIdle
    /\ ParseIdle
    /\ ReconIdle
    /\ PhoneIdle
    /\ ImportIdle
    /\ LedgerIdle
    /\ ThresholdIdle
    /\ ReminderIdle

ExtractPayer ==
    /\ pc = "start"
    /\ extracted' = _extract_payer_name(description)
    /\ pc' = "extracted"
    /\ UNCHANGED <<description, normVars, matchVars, suggestVars, parseVars,
                   reconVars, phoneVars, importVars, ledgerVars,
                   thresholdVars, reminderVars>>

NextPayer == ExtractPayer

SpecPayer == InitPayer /\ [][NextPayer]_vars

-----------------------------------------------------------------------------
(* Specification of the parser: one call of parse_excel.                   *)

InitParse ==
    /\ pc = "start"
    /\ rows \in DataFrames
    /\ coerce_keeps \in BOOLEAN
    /\ transactions = <<>>
    /\ metadata = <<>>
    /\ NormIdle
    /\ MatchIdle
    /\ SuggestIdle
    /\ PayerIdle
    /\ ReconIdle
    /\ PhoneIdle
    /\ ImportIdle
    /\ LedgerIdle
    /\ ThresholdIdle
    /\ ReminderIdle

ParseExcel ==
    /\ pc = "start"
    /\ LET result == parse_excel(rows, coerce_keeps)
       IN  /\ pc' = IF result.raised THEN "raised" ELSE "parsed"
           /\ transactions' = result.transactions
           /\ metadata' = result.metadata
    /\ UNCHANGED <<rows, coerce_keeps, normVars, matchVars, suggestVars,
                   payerVars, reconVars, phoneVars, importVars, ledgerVars,
                   thresholdVars, reminderVars>>

NextParse == ParseExcel

SpecParse == InitParse /\ [][NextParse]_vars

-----------------------------------------------------------------------------
(* Claims about the parser (SpecParse).                                    *)

HasFeeKeyword(row) == ContainsAny(StrippedDescription(row), FEE_KEYWORDS)

HasSummaryMarker(row) == ContainsAny(StrippedDescription(row), SummaryMarkers)

\* the admitted rows with no fee keyword, no summary marker and no positive
\* debit, in input order
Retained ==
    SelectSeq(rows, LAMBDA row :
        /\ Admitted(row)
        /\ ~HasFeeKeyword(row)
        /\ ~HasSummaryMarker(row)
        /\ ~IsPositive(_parse_amount(row.debit)))

\* C12: the final transaction sequence holds exactly the admitted rows with
\* no fee keyword, no summary marker and no positive debit, in input order;
\* a retained row is a 'payment' if its credit is positive and 'other'
\* otherwise.
C12_RetainedRows ==
    pc = "parsed" =>
        /\ Len(transactions) = Len(Retained)
        /\ \A i \in 1..Len(Retained) :
              i <= Len(transactions) =>
                /\ transactions[i].description
                      = StrippedDescription(Retained[i])
                /\ transactions[i].activity_date
                      = _parse_date(Retained[i].activity_date)
                /\ transactions[i].credit_amount
                      = _parse_amount(Retained[i].credit)
                /\ transactions[i].debit_amount
                      = _parse_amount(Retained[i].debit)
                /\ transactions[i].transaction_type
                      = IF IsPositive(_parse_amount(Retained[i].credit))
                        THEN "payment" ELSE "other"

\* a row with a summary marker that is no fee keyword and a positive credit
\* is excluded, and the payment row after it is retained
C12_Witness ==
    /\ pc = "parsed"
    /\ Len(rows) = 2
    /\ Admitted(rows[1])
    /\ HasSummaryMarker(rows[1]) /\ ~HasFeeKeyword(rows[1])
    /\ IsPositive(_parse_amount(rows[1].credit))
    /\ Len(transactions) = 1
    /\ transactions[1].transaction_type = "payment"

\* C13: no transaction of the parser's output has both a positive credit
\* and a positive debit.
C13_NeverBothPositive ==
    pc = "parsed" =>
        \A i \in 1..Len(transactions) :
            ~(/\ IsPositive(transactions[i].credit_amount)
              /\ IsPositive(transactions[i].debit_amount))

\* an admitted row with a positive credit and a positive debit was parsed,
\* next to a row that is retained
C13_Witness ==
    /\ pc = "parsed"
    /\ \E i \in 1..Len(rows) :
          /\ Admitted(rows[i])
          /\ ~HasFeeKeyword(rows[i]) /\ ~HasSummaryMarker(rows[i])
          /\ IsPositive(_parse_amount(rows[i].credit))
          /\ IsPositive(_parse_amount(rows[i].debit))
    /\ transactions # <<>>

\* the rows the claim admits: a description that is present and not empty,
\* and a date that is a date or a text of the form day/month/year with a
\* year of two or of four digits
Admissible(row) ==
    /\ row.description.kind = "str"
    /\ Strip(row.description.value) # <<>>
    /\ \/ row.activity_date.kind = "datetime"
       \/ /\ row.activity_date.kind = "str"
          /\ \/ strptime(row.activity_date.value, 2) # <<>>
             \/ strptime(row.activity_date.value, 4) # <<>>

\* C14: no sequence of rows aborts the parse: every call returns, its output
\* holds the admissible rows that pass the filter, and a field of such a row
\* that is no number is absent.
C14_RowFaultsNeverAbort ==
    pc # "start" =>
        /\ pc = "parsed"
        /\ LET kept == SelectSeq(rows, LAMBDA row :
                          /\ Admissible(row)
                          /\ ~HasFeeKeyword(row)
                          /\ ~HasSummaryMarker(row)
                          /\ ~IsPositive(_parse_amount(row.debit)))
           IN  /\ Len(transactions) = Len(kept)
               /\ \A i \in 1..Len(kept) :
                     (i <= Len(transactions)
                        /\ kept[i].balance.kind = "str"
                        /\ float(kept[i].balance.value) = <<>>)
                     => transactions[i].balance = <<>>

\* the dates of all rows that are valid under _parse_date
ValidRowDates ==
    SelectSeq([i \in 1..Len(rows) |-> _parse_date(rows[i].activity_date)],
              LAMBDA date : date # <<>>)

\* C15: the period of the metadata is the month and the year of the latest
\* date that is valid under the parser's date rules, and it is absent only
\* if no row has a valid date.
C15_PeriodOfLatestValidDate ==
    pc = "parsed" => metadata.period = PeriodOf(ValidRowDates)

-----------------------------------------------------------------------------
(* Claims about the payer extraction (SpecPayer).                          *)

HasHyphen(s) == Contains(s, <<Sym.hyphen>>)

\* the text to the right of the first hyphen of s, trimmed; None if empty
RightOfFirstHyphen(s) ==
    LET right == Strip(SubSeq(s, FirstHyphen(s) + 1, Len(s)))
    IN  IF right = <<>> THEN None ELSE right

\* C16 as stated: for a description that holds a hyphen the extraction
\* returns the trimmed text to the right of the first hyphen, or nothing if
\* that text is empty.
C16_RightOfFirstHyphen ==
    (pc = "extracted" /\ HasHyphen(description)) =>
        extracted = RightOfFirstHyphen(description)

\* C16 amended: for a description that holds a hyphen the extraction returns
\* the trimmed text to the right of the first hyphen of the description
\* whose runs of whitespace are collapsed to single spaces, or nothing if
\* that text is empty; the scenario description gives 'ישראל ישראלי'.
C16_RightOfFirstHyphenCollapsed ==
    /\ (pc = "extracted" /\ HasHyphen(description)) =>
          extracted = RightOfFirstHyphen(Join(Split(description)))
    /\ (pc = "extracted" /\ description = ScenarioDescription) =>
          extracted = <<1497, 1513, 1512, 1488, 1500, 32, 1497, 1513, 1512,
                        1488, 1500, 1497>>

\* a description with two hyphens, whose payer holds the second one
C16_Witness ==
    /\ pc = "extracted"
    /\ HasHyphen(description)
    /\ FirstHyphen(description) # LastHyphen(description)
    /\ extracted # None
    /\ HasHyphen(extracted)

-----------------------------------------------------------------------------
(* get_payment_status of backend/app/routers/payments.py, for a building   *)
(* that exists and a period that is given.  Amounts are in half shekels;   *)
(* an Optional amount is <<>> for None and <<amount>> otherwise.           *)

\* 1.0, the width of the band of is_overpaid and is_underpaid
StatusTolerance == 2

\* Python truthiness of an Optional amount
Truthy(amount) == amount # <<>> /\ amount[1] # 0

RECURSIVE payments_by_tenant(_, _)
\* payments_by_tenant.get(tenant_id, 0) after the loop over the
\* transactions of the period
payments_by_tenant(trans, tenant_id) ==
    IF trans = <<>> THEN 0
    ELSE (IF /\ trans[1].matched_tenant_id # NoTenant
             /\ Truthy(trans[1].credit_amount)
             /\ trans[1].matched_tenant_id = tenant_id
          THEN trans[1].credit_amount[1] ELSE 0)
         + payments_by_tenant(Tail(trans), tenant_id)

\* apartment.expected_payment or building.expected_monthly_payment, then
\* float(expected) if expected else 0
ExpectedOf(expected_payment, expected_monthly_payment) ==
    LET expected == IF Truthy(expected_payment) THEN expected_payment
                    ELSE expected_monthly_payment
    IN  IF Truthy(expected) THEN expected[1] ELSE 0

IsPaidStrict(paid, expected) ==
    IF expected > 0 THEN paid > expected ELSE paid > 0

\* paid >= expected if expected > 0 else paid > 0
IsPaid(paid, expected) ==
    IF expected > 0 THEN paid >= expected ELSE paid > 0

IsOverpaidInclusive(difference) == difference >= StatusTolerance

IsOverpaid(difference) == difference > StatusTolerance

IsUnderpaid(difference) == difference < -StatusTolerance

\* the status dictionary appended for one tenant and its apartment
StatusOf(tenant, default, trans) ==
    LET expected == ExpectedOf(tenant.expected_payment, default)
        paid == payments_by_tenant(trans, tenant.id)
        difference == paid - expected
    IN  [tenant_id |-> tenant.id,
         apartment_number |-> tenant.apartment_number,
         expected_amount |-> expected,
         paid_amount |-> paid,
         difference |-> difference,
         status |-> IF IsPaid(paid, expected) THEN "paid" ELSE "unpaid",
         is_overpaid |-> IsOverpaid(difference),
         is_underpaid |-> IsUnderpaid(difference)]

RECURSIVE InsertByApartment(_, _)
\* list.sort(key=apartment_number) is stable: an entry goes behind the
\* entries of the same apartment number that came before it
InsertByApartment(sorted, entry) ==
    IF sorted = <<>> THEN <<entry>>
    ELSE IF entry.apartment_number < sorted[1].apartment_number
         THEN <<entry>> \o sorted
         ELSE <<sorted[1]>> \o InsertByApartment(Tail(sorted), entry)

RECURSIVE SortByApartment(_)
SortByApartment(list) ==
    IF list = <<>> THEN <<>>
    ELSE InsertByApartment(
             SortByApartment(SubSeq(list, 1, Len(list) - 1)),
             list[Len(list)])

RECURSIVE SumOf(_, _)
\* the sum of the field of the entries of list
SumOf(list, field) ==
    IF list = <<>> THEN 0 ELSE list[1][field] + SumOf(Tail(list), field)

\* f"{(n / d * 100):.1f}%" in tenths of a percent, rounded to the nearest;
\* no rate of the inputs below lies halfway between two tenths, where the
\* digit printed depends on the binary float
Rate(n, d) == ((2000 * n) + d) \div (2 * d)

tenant_statuses(tenant_rows, default, trans) ==
    SortByApartment([i \in 1..Len(tenant_rows) |->
                        StatusOf(tenant_rows[i], default, trans)])

SummaryOfZeroPercent(list) ==
    LET paid_count == Len(SelectSeq(list, LAMBDA s : s.status = "paid"))
        unpaid_count == Len(SelectSeq(list, LAMBDA s : s.status = "unpaid"))
        total_expected == SumOf(list, "expected_amount")
        total_collected == SumOf(list, "paid_amount")
    IN  [total_tenants |-> Len(list),
         paid |-> paid_count,
         unpaid |-> unpaid_count,
         total_expected |-> total_expected,
         total_collected |-> total_collected,
         collection_rate |-> IF list # <<>>
                             THEN <<Rate(paid_count, Len(list))>>
                             ELSE <<0>>,
         amount_rate |-> IF total_expected > 0
                         THEN <<Rate(total_collected, total_expected)>>
                         ELSE <<0>>]

SummaryOf(list) ==
    LET paid_count == Len(SelectSeq(list, LAMBDA s : s.status = "paid"))
        unpaid_count == Len(SelectSeq(list, LAMBDA s : s.status = "unpaid"))
        total_expected == SumOf(list, "expected_amount")
        total_collected == SumOf(list, "paid_amount")
    IN  [total_tenants |-> Len(list),
         paid |-> paid_count,
         unpaid |-> unpaid_count,
         total_expected |-> total_expected,
         total_collected |-> total_collected,
         collection_rate |-> IF list # <<>>
                             THEN <<Rate(paid_count, Len(list))>>
                             ELSE <<>>,
         amount_rate |-> IF total_expected > 0
                         THEN <<Rate(total_collected, total_expected)>>
                         ELSE <<>>]

-----------------------------------------------------------------------------
(* Inputs of the reconciler.                                               *)

MaxTrans == 2

\* no override, an override of 0 and an override of 300.0
Overrides == {<<>>, <<0>>, <<600>>}

\* no default and a default of 250.0
Defaults == {<<>>, <<500>>}

\* no credit, 0, -50.0, 150.0, 299.0 and 301.0
Credits == {<<>>, <<0>>, <<-100>>, <<300>>, <<598>>, <<602>>}

TenantRow(id, number, override) ==
    [id |-> id, apartment_number |-> number, expected_payment |-> override]

\* no tenant, one tenant, and two tenants of which the second lives in the
\* apartment of the lower number
TenantRows ==
    {<<>>}
        \cup {<<TenantRow(1, 2, o)>> : o \in Overrides}
        \cup {<<TenantRow(1, 2, o1), TenantRow(2, 1, o2)>> :
                 o1 \in Overrides, o2 \in Overrides}

\* an unmatched payment of 150.0, and every credit matched to either tenant
Payments ==
    {[matched_tenant_id |-> NoTenant, credit_amount |-> <<300>>]}
        \cup [matched_tenant_id : {1, 2}, credit_amount : Credits]

PaymentLists == UNION {[1..n -> Payments] : n \in 0..MaxTrans}

-----------------------------------------------------------------------------
(* Specification of the reconciler: one call of get_payment_status.        *)

InitReconcile ==
    /\ pc = "start"
    /\ active_tenants \in TenantRows
    /\ building_default \in Defaults
    /\ period_transactions \in PaymentLists
    /\ statuses = <<>>
    /\ summary = <<>>
    /\ NormIdle
    /\ MatchIdle
    /\ SuggestIdle
    /\ PayerIdle
    /\ ParseIdle
    /\ PhoneIdle
    /\ ImportIdle
    /\ LedgerIdle
    /\ ThresholdIdle
    /\ ReminderIdle

GetPaymentStatus ==
    /\ pc = "start"
    /\ statuses' = tenant_statuses(active_tenants, building_default,
                                   period_transactions)
    /\ summary' = SummaryOf(statuses')
    /\ pc' = "reported"
    /\ UNCHANGED <<active_tenants, building_default, period_transactions,
                   normVars, matchVars, suggestVars, payerVars, parseVars,
                   phoneVars, importVars, ledgerVars, thresholdVars,
                   reminderVars>>

NextReconcile == GetPaymentStatus

SpecReconcile == InitReconcile /\ [][NextReconcile]_vars

-----------------------------------------------------------------------------
(* Claims about the reconciler (SpecReconcile).                            *)

RECURSIVE PositiveCredits(_, _)
\* the sum of the credits of the transactions matched to the tenant whose
\* credit is strictly positive
PositiveCredits(trans, tenant_id) ==
    IF trans = <<>> THEN 0
    ELSE (IF /\ trans[1].matched_tenant_id = tenant_id
             /\ trans[1].credit_amount # <<>>
             /\ trans[1].credit_amount[1] > 0
          THEN trans[1].credit_amount[1] ELSE 0)
         + PositiveCredits(Tail(trans), tenant_id)

\* the active tenant a status is about
TenantOfStatus(entry) ==
    CHOOSE tenant \in ToSet(active_tenants) : tenant.id = entry.tenant_id

Reported == pc = "reported"

\* C17: the paid amount of a tenant is the sum of the strictly positive
\* credits of the transactions of the period matched to that tenant; a
\* transaction with no tenant, no credit or a credit of zero or less adds
\* nothing, so no paid amount is negative.
C17_PaidIsSumOfPositiveCredits ==
    Reported =>
        \A i \in 1..Len(statuses) :
            /\ statuses[i].paid_amount
                  = PositiveCredits(period_transactions,
                                    statuses[i].tenant_id)
            /\ statuses[i].paid_amount >= 0

\* C18: the expected amount of a tenant is the override of its apartment
\* whenever one is present, an override of 0 included, otherwise the default
\* of the building when present, otherwise 0.
C18_OverrideThenDefault ==
    Reported =>
        \A i \in 1..Len(statuses) :
            LET override == TenantOfStatus(statuses[i]).expected_payment
            IN  statuses[i].expected_amount
                    = IF override # <<>> THEN override[1]
                      ELSE IF building_default # <<>>
                           THEN building_default[1]
                      ELSE 0

\* C19: for every tenant status the difference is the paid amount less the
\* expected amount; with an expected amount above 0 the status is 'paid'
\* exactly when the paid amount is at least the expected amount, with an
\* expected amount of 0 exactly when the paid amount is above 0, and
\* 'unpaid' otherwise.
C19_StatusRule ==
    Reported =>
        \A i \in 1..Len(statuses) :
            LET entry == statuses[i]
            IN  /\ entry.difference
                      = entry.paid_amount - entry.expected_amount
                /\ entry.status \in {"paid", "unpaid"}
                /\ entry.expected_amount > 0 =>
                      (entry.status = "paid"
                          <=> entry.paid_amount >= entry.expected_amount)
                /\ entry.expected_amount = 0 =>
                      (entry.status = "paid" <=> entry.paid_amount > 0)

\* a tenant whose two payments add up to exactly the expected amount, next
\* to a tenant who has no expected amount and paid nothing
C19_Witness ==
    /\ Reported
    /\ \E i \in 1..Len(statuses) :
          /\ statuses[i].expected_amount > 0
          /\ statuses[i].paid_amount = statuses[i].expected_amount
          /\ statuses[i].status = "paid"
    /\ \E i \in 1..Len(statuses) :
          /\ statuses[i].expected_amount = 0
          /\ statuses[i].status = "unpaid"
    /\ Len(period_transactions) = 2

\* C20: is_overpaid holds exactly when the difference is above 1.0 and
\* is_underpaid exactly when it is below -1.0; the two never hold together,
\* and a difference within [-1.0, 1.0] sets neither.
C20_ToleranceBand ==
    Reported =>
        \A i \in 1..Len(statuses) :
            LET entry == statuses[i]
            IN  /\ entry.is_overpaid <=> entry.difference > StatusTolerance
                /\ entry.is_underpaid <=> entry.difference < -StatusTolerance
                /\ ~(entry.is_overpaid /\ entry.is_underpaid)
                /\ (/\ entry.difference >= -StatusTolerance
                    /\ entry.difference <= StatusTolerance)
                      => (~entry.is_overpaid /\ ~entry.is_underpaid)

\* one tenant paid exactly 1.0 more and the other exactly 1.0 less than
\* expected, and neither carries a flag
C20_Witness ==
    /\ Reported
    /\ \E i \in 1..Len(statuses) :
          /\ statuses[i].difference = StatusTolerance
          /\ ~statuses[i].is_overpaid
    /\ \E i \in 1..Len(statuses) :
          /\ statuses[i].difference = -StatusTolerance
          /\ ~statuses[i].is_underpaid

RECURSIVE CountOf(_, _)
\* the number of the statuses from the k-th on that carry the status
CountOf(k, status) ==
    IF k > Len(statuses) THEN 0
    ELSE (IF statuses[k].status = status THEN 1 ELSE 0)
         + CountOf(k + 1, status)

RECURSIVE TotalOf(_, _)
\* the sum of the field over the statuses from the k-th on
TotalOf(k, field) ==
    IF k > Len(statuses) THEN 0
    ELSE statuses[k][field] + TotalOf(k + 1, field)

\* C21: the summary is the aggregate of the returned tenant statuses: paid
\* and unpaid count the statuses and add up to total_tenants, the totals are
\* the sums of the expected and the paid amounts, the rates are paid over
\* total_tenants and total_collected over total_expected; collection_rate is
\* not applicable exactly when there is no tenant and amount_rate exactly
\* when total_expected is zero.
C21_SummaryIsAggregate ==
    Reported =>
        /\ summary.total_tenants = Len(statuses)
        /\ summary.paid = CountOf(1, "paid")
        /\ summary.unpaid = CountOf(1, "unpaid")
        /\ summary.paid + summary.unpaid = summary.total_tenants
        /\ summary.total_expected = TotalOf(1, "expected_amount")
        /\ summary.total_collected = TotalOf(1, "paid_amount")
        /\ summary.collection_rate = <<>> <=> summary.total_tenants = 0
        /\ summary.amount_rate = <<>> <=> summary.total_expected = 0
        /\ summary.total_tenants # 0 =>
              summary.collection_rate
                  = <<Rate(summary.paid, summary.total_tenants)>>
        /\ summary.total_expected # 0 =>
              summary.amount_rate
                  = <<Rate(summary.total_collected, summary.total_expected)>>

\* two tenants with no expected amount, of whom one paid: the collection
\* rate is 50.0% and the amount rate is not applicable
C21_Witness ==
    /\ Reported
    /\ Len(statuses) = 2
    /\ summary.total_expected = 0
    /\ summary.paid = 1
    /\ summary.unpaid = 1
    /\ summary.collection_rate = <<500>>
    /\ summary.amount_rate = <<>>

-----------------------------------------------------------------------------
(* normalize_phone and import_tenants_from_excel of                        *)
(* backend/app/routers/tenants.py.                                         *)

Plus972 == <<43, 57, 55, 50>>

\* ''.join(filter(str.isdigit, s))
OnlyDigits(s) == SelectSeq(s, IsDigit)

\* normalize_phone of a string or of None
normalize_phone(text) ==
    IF IsFalsy(text) THEN None
    ELSE LET phone_str == Strip(text)
             phone_digits == OnlyDigits(phone_str)
         IN  IF StartsWith(phone_str, Plus972)
             THEN Plus972 \o OnlyDigits(SubSeq(phone_str, 5, Len(phone_str)))
             ELSE IF StartsWith(phone_digits, Tail(Plus972))
             THEN Plus972 \o SubSeq(phone_digits, 4, Len(phone_digits))
             ELSE IF StartsWith(phone_digits, <<Sym.zero>>)
             THEN Plus972 \o Tail(phone_digits)
             ELSE Plus972 \o phone_digits

RECURSIVE IntToStr(_)
\* str(n) of a natural number
IntToStr(n) ==
    IF n < 10 THEN <<Sym.zero + n>>
    ELSE IntToStr(n \div 10) \o <<Sym.zero + (n % 10)>>

\* the Hebrew headers of the tenant file and the names they are renamed to
column_mapping ==
    << [header |-> <<1491, 1497, 1512, 1492>>, column |-> "apartment"],
       [header |-> <<1511, 1493, 1502, 1492>>, column |-> "floor"],
       [header |-> <<1513, 1501>>, column |-> "name"],
       [header |-> <<1496, 1500, 1508, 1493, 1503>>, column |-> "phone"],
       [header |-> <<1491, 1493, 1488, 1500>>, column |-> "email"],
       [header |-> <<1505, 1493, 1490, 32, 1489, 1506, 1500, 1493, 1514>>,
        column |-> "ownership_type"],
       [header |-> <<1513, 1501, 32, 1489, 1504, 1511>>,
        column |-> "bank_name"],
       [header |-> <<1495, 1513, 1489, 1493, 1503, 32, 1489, 1504, 1511>>,
        column |-> "bank_account"] >>

required_columns == <<"apartment", "floor", "name", "ownership_type">>

\* 'בעלים', 'משכיר' and 'שוכר'
ownership_map ==
    << [text |-> <<1489, 1506, 1500, 1497, 1501>>, type |-> "owner"],
       [text |-> <<1502, 1513, 1499, 1497, 1512>>, type |-> "landlord"],
       [text |-> <<1513, 1493, 1499, 1512>>, type |-> "renter"] >>

\* the name of a column after df.rename(columns=column_mapping): a header
\* that is no key of the mapping keeps its own name, which is none of the
\* names the import reads
Rename(header) ==
    IF \E k \in 1..Len(column_mapping) : column_mapping[k].header = header
    THEN (CHOOSE entry \in ToSet(column_mapping) :
              entry.header = header).column
    ELSE "unmapped"

Columns(headers) == [i \in 1..Len(headers) |-> Rename(headers[i])]

HasColumn(columns, column) ==
    \E i \in 1..Len(columns) : columns[i] = column

\* row.get(column): the cell of the column, NaN when there is no such column
Cell(columns, row, column) ==
    IF HasColumn(columns, column)
    THEN row[CHOOSE i \in 1..Len(columns) : columns[i] = column]
    ELSE NaN

\* the cells of a column hold an empty one; pandas then reads its numbers
\* as floats
HasEmptyCell(columns, cells, column) ==
    \E r \in 1..Len(cells) : Cell(columns, cells[r], column).kind = "nan"

\* str(phone) of a phone cell: the digits of an integer, followed by '.0'
\* for a float
PhoneText(cell, as_float) ==
    IF cell.kind = "str" THEN cell.value
    ELSE IF as_float
         THEN IntToStr(cell.value[1]) \o <<Sym.point, Sym.zero>>
         ELSE IntToStr(cell.value[1])


OwnershipOf(cell) ==
    IF cell.kind = "str"
       /\ \E k \in 1..Len(ownership_map) : ownership_map[k].text = cell.value
    THEN (CHOOSE entry \in ToSet(ownership_map) :
              entry.text = cell.value).type
    ELSE "none"

RECURSIVE ImportRows(_, _, _, _, _)
\* the loop over df.iterrows(): acc holds imported_count, errors and the
\* tenants added to the session; stored are the tenants of the building
\* before the request
ImportRows(columns, cells, stored, k, acc) ==
    IF k > Len(cells) THEN acc
    ELSE LET row == cells[k]
             apt_val == Cell(columns, row, "apartment")
             name_cell == Cell(columns, row, "name")
             ownership_type == OwnershipOf(Cell(columns, row,
                                                "ownership_type"))
             phone_cell == Cell(columns, row, "phone")
             Fail(kind) ==
                 [acc EXCEPT !.errors =
                      Append(@, [row |-> k, error |-> kind])]
             tenant ==
                 [apartment |-> apt_val.value[1],
                  name |-> name_cell.value,
                  phone |-> IF phone_cell.kind = "nan" THEN None
                            ELSE normalize_phone(
                                     PhoneText(phone_cell,
                                         HasEmptyCell(columns, cells,
                                                      "phone"))),
                  ownership_type |-> ownership_type]
         IN  IF apt_val.kind = "nan"
             THEN ImportRows(columns, cells, stored, k + 1,
                             Fail("apartment"))
             ELSE IF ownership_type = "none"
             THEN ImportRows(columns, cells, stored, k + 1,
                             Fail("ownership_type"))
             ELSE IF \E t \in 1..Len(stored) :
                         /\ stored[t].apartment = tenant.apartment
                         /\ stored[t].name = tenant.name
             THEN ImportRows(columns, cells, stored, k + 1,
                             Fail("existing"))
             ELSE ImportRows(columns, cells, stored, k + 1,
                             [acc EXCEPT !.imported_count = @ + 1,
                                         !.tenants = Append(@, tenant)])

\* import_tenants_from_excel for a building that exists and a file pandas
\* can read: the response and the tenants of the building afterwards
import_tenants_from_excel(df, stored) ==
    LET columns == Columns(df.headers)
        missing_columns ==
            SelectSeq(required_columns,
                      LAMBDA col : ~HasColumn(columns, col))
        done == ImportRows(columns, df.rows, stored, 1,
                           [imported_count |-> 0, errors |-> <<>>,
                            tenants |-> <<>>])
    IN  IF missing_columns # <<>>
        THEN [response |-> [status_code |-> 400, imported_count |-> 0,
                            errors |-> <<>>,
                            missing_columns |-> missing_columns],
              tenants |-> stored]
        ELSE [response |-> [status_code |-> 201,
                            imported_count |-> done.imported_count,
                            errors |-> done.errors,
                            missing_columns |-> <<>>],
              tenants |-> stored \o done.tenants]

-----------------------------------------------------------------------------
(* The files of the tenant import.                                         *)

MaxImportRows == 2

Padded(header, padding) ==
    IF padding = "trailing" THEN header \o <<32>>
    ELSE IF padding = "leading" THEN <<32>> \o header
    ELSE header

\* the headers of a tenant report: the apartment and the phone header may
\* carry a space, and there may be a column the import does not know
\* ('כתובת')
HeaderRow(apartment_padding, phone_padding, extra) ==
    (IF extra THEN << <<1499, 1514, 1493, 1489, 1514>> >> ELSE <<>>)
    \o << Padded(column_mapping[1].header, apartment_padding),
          column_mapping[2].header,
          column_mapping[3].header,
          Padded(column_mapping[4].header, phone_padding),
          column_mapping[6].header >>

HeaderRows ==
    { HeaderRow(a, p, e) : a \in {"none", "trailing", "leading"},
                           p \in {"none", "trailing"},
                           e \in BOOLEAN }

ApartmentCells == {NaN, Number(1)}

\* no phone, the integer 523000001 and '050-123 4567'
PhoneCells ==
    { NaN, Number(523000001),
      Text(<<48, 53, 48, 45, 49, 50, 51, 32, 52, 53, 54, 55>>) }

\* 'משכיר' and a text that is no ownership type
OwnershipCells == {Text(ownership_map[2].text), Text(<<Sym.x>>)}

\* the cells of row k under the headers: rows of one file bear different
\* names
ImportRow(headers, k, apartment_cell, phone_cell, ownership_cell) ==
    (IF Len(headers) = 6 THEN <<Text(<<Ch.a>>)>> ELSE <<>>)
    \o << apartment_cell, Number(1), Text(<<Ch.a, Sym.zero + k>>),
          phone_cell, ownership_cell >>

InitImport ==
    /\ NormIdle /\ MatchIdle /\ SuggestIdle
    /\ PayerIdle /\ ParseIdle /\ ReconIdle /\ PhoneIdle
    /\ pc = "ready"
    /\ \E h \in HeaderRows, n \in 0..MaxImportRows :
           \E shape \in [1..n -> ApartmentCells \X PhoneCells
                                    \X OwnershipCells] :
               sheet = [headers |-> h,
                        rows |-> [k \in 1..n |->
                                     ImportRow(h, k, shape[k][1],
                                               shape[k][2], shape[k][3])]]
    /\ db_tenants = <<>>
    /\ response = <<>>
    /\ LedgerIdle
    /\ ThresholdIdle
    /\ ReminderIdle

\* POST /{building_id}/import
ImportTenants ==
    /\ pc = "ready"
    /\ response = <<>>
    /\ LET result == import_tenants_from_excel(sheet, db_tenants)
       IN  /\ response' = result.response
           /\ db_tenants' = result.tenants
    /\ pc' = "imported"
    /\ UNCHANGED <<sheet, normVars, matchVars, suggestVars, payerVars,
                   parseVars, reconVars, phoneVars, ledgerVars, thresholdVars,
                   reminderVars>>

NextImport == ImportTenants

SpecImport == InitImport /\ [][NextImport]_vars

\* the rows of the file the import accepts: an apartment number and one of
\* the three ownership types
ValidImportRows ==
    { k \in 1..Len(sheet.rows) :
        LET row == sheet.rows[k]
            offset == Len(sheet.headers) - 5
        IN  /\ row[offset + 1].kind # "nan"
            /\ OwnershipOf(row[offset + 5]) # "none" }

RequiredHeadersPresent ==
    \A c \in 1..Len(required_columns) :
        \E i \in 1..Len(sheet.headers) :
            \E m \in 1..Len(column_mapping) :
                /\ column_mapping[m].column = required_columns[c]
                /\ column_mapping[m].header = Strip(sheet.headers[i])

\* C22: a tenant file whose headers carry leading or trailing whitespace is
\* imported as if they did not: with the required headers present up to
\* such whitespace, the response is 201, imported_count is the number of
\* valid rows and, when every row is valid, there are no errors
C22_PaddedHeadersImported ==
    (pc = "imported" /\ RequiredHeadersPresent)
    => /\ response.status_code = 201
       /\ response.imported_count = Cardinality(ValidImportRows)
       /\ ValidImportRows = 1..Len(sheet.rows) => response.errors = <<>>

-----------------------------------------------------------------------------
(* The written forms of a phone number.                                    *)

MaxPhoneLen == 4

\* national numbers: the digits after the trunk prefix 0, so they do not
\* begin with 0
NationalNumbers ==
    { n \in Strings({Sym.five, Sym.nine, 55, 50, Sym.zero}, MaxPhoneLen) :
        n # <<>> /\ n[1] # Sym.zero }

\* '', '0', '972' and '+972'
PhonePrefixes == {<<>>, <<Sym.zero>>, Tail(Plus972), Plus972}

\* nothing, a space and a dash
PhoneSeparators == {<<>>, <<32>>, <<Sym.hyphen>>}

\* the national number behind a prefix, with a separator after its first
\* pos digits
Written(prefix, separator, pos, digits) ==
    prefix \o SubSeq(digits, 1, pos) \o separator
    \o SubSeq(digits, pos + 1, Len(digits))

InitPhone ==
    /\ NormIdle /\ MatchIdle /\ SuggestIdle
    /\ PayerIdle /\ ParseIdle /\ ReconIdle /\ ImportIdle
    /\ pc = "ready"
    /\ \/ /\ national \in NationalNumbers
          /\ \E prefix \in PhonePrefixes, separator \in PhoneSeparators :
                 \E pos \in 0..Len(national) :
                     phone = Written(prefix, separator, pos, national)
       \/ /\ national = <<>>
          /\ phone \in {None, <<>>}
    /\ phone_out = None
    /\ phone_again = None
    /\ LedgerIdle
    /\ ThresholdIdle
    /\ ReminderIdle

NormalizePhone ==
    /\ pc = "ready"
    /\ phone_out' = normalize_phone(phone)
    /\ pc' = "normalized"
    /\ UNCHANGED <<national, phone, phone_again, normVars, matchVars,
                   suggestVars, payerVars, parseVars, reconVars, importVars,
                   ledgerVars, thresholdVars, reminderVars>>

\* normalize_phone applied to its own result
RenormalizePhone ==
    /\ pc = "normalized"
    /\ phone_again' = normalize_phone(phone_out)
    /\ pc' = "renormalized"
    /\ UNCHANGED <<national, phone, phone_out, normVars, matchVars,
                   suggestVars, payerVars, parseVars, reconVars, importVars,
                   ledgerVars, thresholdVars, reminderVars>>

NextPhone == NormalizePhone \/ RenormalizePhone

SpecPhone == InitPhone /\ [][NextPhone]_vars

\* C23: every written form of a national number is normalised to '+972'
\* followed by the national digits, empty and absent input to None, and
\* normalising the result again changes nothing
C23_OneStringPerNumber ==
    /\ pc \in {"normalized", "renormalized"} =>
           phone_out = IF national = <<>> THEN None
                       ELSE Plus972 \o national
    /\ pc = "renormalized" => phone_again = phone_out

-----------------------------------------------------------------------------
(* The token_based strategy inside match_transaction_to_tenants.           *)

\* the token_based score of the i-th tenant in the call of the model
TokenScoreOf(i) ==
    _token_based_match(_normalize_name(payer_name),
                       tenant_name_of(tenants[i]),
                       tenant_full_name_of(tenants[i]), hash_first)

\* the score the description of the strategy gives: the larger Jaccard
\* similarity, with the boost when any payer token is among the tokens of
\* the display name or of the full name
TokenScoreForAnyToken(i) ==
    LET payer_tokens == ToSet(Split(_normalize_name(payer_name)))
        tenant_tokens ==
            ToSet(Split(_normalize_name(tenant_name_of(tenants[i]))))
        full_tokens ==
            ToSet(Split(_normalize_name(tenant_full_name_of(tenants[i]))))
        best_score == Max(jaccard(payer_tokens, tenant_tokens),
                          jaccard(payer_tokens, full_tokens))
    IN  IF payer_tokens \cap (tenant_tokens \cup full_tokens) # {}
        THEN Min(best_score + Hundredths(15), ScoreScale)
        ELSE best_score

\* C24: the token_based score is the larger of the two Jaccard similarities,
\* plus 0.15 (capped at 1.0) if any payer token is present in either tenant
\* token set, and unboosted only if none is
C24_BoostForAnyToken ==
    (pc = "matched" /\ ~Degenerate) =>
        \A i \in 1..Len(tenants) : TokenScoreOf(i) = TokenScoreForAnyToken(i)

-----------------------------------------------------------------------------
(* The tables behind the routers: upload_bank_statement and                *)
(* manually_match_transaction of backend/app/routers/statements.py, and    *)
(* delete_tenant of backend/app/routers/tenants.py, for one building.      *)

\* the values of the enumeration MatchMethod of models/transaction.py
MatchMethod == {"exact", "fuzzy", "manual", "amount", "reversed_name"}

\* NULL in the columns match_method and match_confidence
NullMethod == "null"

NullConfidence == <<>>

\* the rows the tenants of the building have in table tenants: 'a b' with
\* the same full name, and 'b c' without a full name
TenantRecord(id) ==
    IF id = 1
    THEN [id |-> 1, name |-> <<Ch.a, 32, Ch.b>>,
          full_name |-> <<Ch.a, 32, Ch.b>>]
    ELSE [id |-> id, name |-> <<Ch.b, 32, 99>>, full_name |-> None]

AllTenantIds == {1, 2}

\* the dictionary the upload hands to the matcher for a tenant
TenantDict(t) ==
    [id |-> t.id, name |-> t.name,
     full_name |-> IF IsFalsy(t.full_name) THEN t.name ELSE t.full_name]

\* the orders in which a query without ORDER BY may return the rows
Orderings(ids) ==
    { order \in [1..Cardinality(ids) -> ids] :
        \A i, j \in 1..Cardinality(ids) : order[i] = order[j] => i = j }

\* a parsed credit as the matcher's actual_amount
ActualAmount(credit) ==
    IF credit = <<>> THEN NoAmount ELSE credit[1] \div 50

\* the row of table transactions for a parsed transaction, before matching
TransactionRecord(trans) ==
    [description |-> trans.description,
     transaction_type |-> trans.transaction_type,
     credit_amount |-> trans.credit_amount,
     matched_tenant_id |-> NoTenant,
     match_confidence |-> NullConfidence,
     match_method |-> NullMethod,
     is_confirmed |-> FALSE]

\* list(payer_tokens)[0] for the pick-th iteration order of the token set
PickFirst(payer, pick) ==
    LET tokens == Split(_normalize_name(payer))
    IN  IF tokens = <<>> THEN <<>>
        ELSE tokens[((pick - 1) % Len(tokens)) + 1]

\* is_confirmed = confidence >= 0.9
AutoConfirm == Hundredths(90)

RECURSIVE StoreTransactions(_, _, _, _, _, _)
\* the loop over transactions_data, from transaction k on: raised when
\* MatchMethod(method) raises ValueError, else the rows added to the session
StoreTransactions(parsed, k, roster, picks, auto_match, acc) ==
    IF k > Len(parsed) THEN [raised |-> FALSE, rows |-> acc]
    ELSE LET trans_data == parsed[k]
             transaction == TransactionRecord(trans_data)
             found ==
                 match_transaction_to_tenants(
                     trans_data.payer_name, roster, NoAmount,
                     ActualAmount(trans_data.credit_amount),
                     PickFirst(trans_data.payer_name, picks[k]))
         IN  IF /\ auto_match
                /\ trans_data.transaction_type = "payment"
                /\ ~IsFalsy(trans_data.payer_name)
                /\ found.match # NoTenant
             THEN IF found.method \notin MatchMethod
                  THEN [raised |-> TRUE, rows |-> <<>>]
                  ELSE StoreTransactions(parsed, k + 1, roster, picks,
                           auto_match,
                           Append(acc,
                               [transaction EXCEPT
                                    !.matched_tenant_id = found.match,
                                    !.match_confidence = <<found.score>>,
                                    !.match_method = found.method,
                                    !.is_confirmed =
                                        found.score >= AutoConfirm]))
             ELSE StoreTransactions(parsed, k + 1, roster, picks, auto_match,
                                    Append(acc, transaction))

\* upload_bank_statement for a building that exists: the status of the
\* response and the rows the request commits
upload_bank_statement(df, keeps, roster, picks, auto_match) ==
    LET parsed == parse_excel(df, keeps)
        stored == StoreTransactions(parsed.transactions, 1, roster, picks,
                                    auto_match, <<>>)
    IN  IF parsed.raised THEN [status_code |-> 400, rows |-> <<>>]
        ELSE IF stored.raised THEN [status_code |-> 500, rows |-> <<>>]
        ELSE [status_code |-> 201, rows |-> stored.rows]

\* the mapping manually_match_transaction looks for and adds
MappingOf(payer, tenant_id) == [bank_name |-> payer, tenant_id |-> tenant_id]

HasMapping(mappings, payer, tenant_id) ==
    \E m \in 1..Len(mappings) : mappings[m] = MappingOf(payer, tenant_id)

\* the transaction after a manual match
ManuallyMatched(transaction, tenant_id) ==
    [transaction EXCEPT !.matched_tenant_id = tenant_id,
                        !.match_method = "manual",
                        !.match_confidence = <<ScoreScale>>,
                        !.is_confirmed = TRUE]

\* the mappings after the request, existing_mapping being what its query
\* for the mapping found
RememberMapping(mappings, remember, text, tenant_id, existing_mapping) ==
    LET payer == _extract_payer_name(text)
    IN  IF remember /\ ~IsFalsy(payer) /\ ~existing_mapping
        THEN Append(mappings, MappingOf(payer, tenant_id))
        ELSE mappings

\* UPDATE transactions SET matched_tenant_id = NULL WHERE matched_tenant_id
\* = :tid
NullifyMatches(table, tenant_id) ==
    [i \in 1..Len(table) |->
        IF table[i].matched_tenant_id = tenant_id
        THEN [table[i] EXCEPT !.matched_tenant_id = NoTenant]
        ELSE table[i]]

\* DELETE FROM name_mappings WHERE tenant_id = :tid
DeleteMappings(mappings, tenant_id) ==
    SelectSeq(mappings, LAMBDA m : m.tenant_id # tenant_id)

-----------------------------------------------------------------------------
(* Specification of the tables: requests answered one after the other.     *)

MaxUploadRows == 1

MaxRequests == 3

\* 'x - ' before the payer name
Described(payer) == <<Sym.x, 32, Sym.hyphen, 32>> \o payer

\* payers of the statements: 'a b', 'b a', 'ab', 'c d' and 'd'
UploadPayers ==
    { <<Ch.a, 32, Ch.b>>, <<Ch.b, 32, Ch.a>>, <<Ch.a, Ch.b>>,
      <<99, 32, 100>>, <<100>> }

\* a payment of each payer, and a credit without a payer name
UploadRows ==
    { Row(Date(2024, 2, 20), Text(Described(payer)), Paid, NaN, NaN) :
        payer \in UploadPayers }
    \cup { Row(Date(2024, 2, 20), Text(<<Sym.x>>), Paid, NaN, NaN) }

StatementFiles == UNION {[1..n -> UploadRows] : n \in 0..MaxUploadRows}

InitLedger ==
    /\ NormIdle /\ MatchIdle /\ SuggestIdle /\ PayerIdle /\ ParseIdle
    /\ ReconIdle /\ PhoneIdle /\ ImportIdle /\ ThresholdIdle /\ ReminderIdle
    /\ pc = "serving"
    /\ tenant_table = AllTenantIds
    /\ transaction_table = <<>>
    /\ name_mapping_table = <<>>
    /\ request = <<>>
    /\ requests = 0
    /\ sessions = <<>>

Answer(handler, status_code) ==
    /\ request' = [handler |-> handler, status_code |-> status_code]
    /\ requests' = requests + 1

OtherGroups ==
    <<normVars, matchVars, suggestVars, payerVars, parseVars, reconVars,
      phoneVars, importVars, thresholdVars, reminderVars>>

\* POST /{building_id}/upload
UploadBankStatement ==
    /\ pc = "serving"
    /\ requests < MaxRequests
    /\ \E df \in StatementFiles, keeps \in BOOLEAN, auto_match \in BOOLEAN,
          order \in Orderings(tenant_table) :
         \E picks \in [1..Len(df) -> 1..2] :
           LET roster == [i \in 1..Len(order) |->
                             TenantDict(TenantRecord(order[i]))]
               result == upload_bank_statement(df, keeps, roster, picks,
                                               auto_match)
           IN  /\ transaction_table' = transaction_table \o result.rows
               /\ Answer("upload_bank_statement", result.status_code)
    /\ UNCHANGED <<pc, tenant_table, name_mapping_table, sessions,
                   OtherGroups>>

\* POST /transactions/{transaction_id}/match/{tenant_id}
ManuallyMatchTransaction ==
    /\ pc = "serving"
    /\ requests < MaxRequests
    /\ \E transaction_id \in 1..(Len(transaction_table) + 1),
          tenant_id \in AllTenantIds, remember \in BOOLEAN :
         IF transaction_id > Len(transaction_table)
            \/ tenant_id \notin tenant_table
         THEN /\ Answer("manually_match_transaction", 404)
              /\ UNCHANGED <<transaction_table, name_mapping_table>>
         ELSE LET transaction == transaction_table[transaction_id]
              IN  /\ transaction_table' =
                         [transaction_table EXCEPT ![transaction_id] =
                              ManuallyMatched(transaction, tenant_id)]
                  /\ name_mapping_table' =
                         RememberMapping(name_mapping_table, remember,
                             transaction.description, tenant_id,
                             HasMapping(name_mapping_table,
                                 _extract_payer_name(transaction.description),
                                 tenant_id))
                  /\ Answer("manually_match_transaction", 200)
    /\ UNCHANGED <<pc, tenant_table, sessions, OtherGroups>>

\* DELETE /{tenant_id}
DeleteTenant ==
    /\ pc = "serving"
    /\ requests < MaxRequests
    /\ \E tenant_id \in AllTenantIds :
         IF tenant_id \notin tenant_table
         THEN /\ Answer("delete_tenant", 404)
              /\ UNCHANGED <<tenant_table, transaction_table,
                             name_mapping_table>>
         ELSE /\ transaction_table' =
                     NullifyMatches(transaction_table, tenant_id)
              /\ name_mapping_table' =
                     DeleteMappings(name_mapping_table, tenant_id)
              /\ tenant_table' = tenant_table \ {tenant_id}
              /\ Answer("delete_tenant", 204)
    /\ UNCHANGED <<pc, sessions, OtherGroups>>

NextLedger ==
    UploadBankStatement \/ ManuallyMatchTransaction \/ DeleteTenant

SpecLedger == InitLedger /\ [][NextLedger]_vars

\* C25: during statement upload every match decision that carries a tenant
\* can be recorded: no upload fails while a match is being stored
C25_EveryMatchCanBeStored ==
    (request # <<>> /\ request.handler = "upload_bank_statement")
    => request.status_code # 500

\* C29: every confirmed transaction has a matched tenant that still exists,
\* and no transaction is confirmed, or carries a match confidence or method,
\* without a matched tenant
C29_ConfirmedKeepTheirTenant ==
    \A i \in 1..Len(transaction_table) :
        LET transaction == transaction_table[i]
        IN  /\ transaction.is_confirmed =>
                   transaction.matched_tenant_id \in tenant_table
            /\ transaction.matched_tenant_id = NoTenant =>
                   /\ ~transaction.is_confirmed
                   /\ transaction.match_confidence = NullConfidence
                   /\ transaction.match_method = NullMethod


-----------------------------------------------------------------------------
(* Specification of concurrent manual matches: every request runs in a     *)
(* database session of its own, so its query for an existing mapping sees  *)
(* what was committed before it, and its rows are seen once it commits.    *)

MaxSessions == 2

MaxMappingRows == 2

MaxMatches == 3

IdleSession ==
    [at |-> "idle", transaction_id |-> 0, tenant_id |-> NoTenant,
     remember |-> FALSE, existing_mapping |-> FALSE]

\* unmatched payments 'x - a b' and 'x - ab', and the credit 'x' without a
\* payer name
MappingRows ==
    { TransactionRecord(TransactionOf(
          Row(Date(2024, 2, 20), Text(text), Paid, NaN, NaN))) :
        text \in { Described(<<Ch.a, 32, Ch.b>>), Described(<<Ch.a, Ch.b>>),
                   <<Sym.x>> } }

InitMapping ==
    /\ NormIdle /\ MatchIdle /\ SuggestIdle /\ PayerIdle /\ ParseIdle
    /\ ReconIdle /\ PhoneIdle /\ ImportIdle /\ ThresholdIdle /\ ReminderIdle
    /\ pc = "serving"
    /\ tenant_table = AllTenantIds
    /\ transaction_table \in
           UNION {[1..n -> MappingRows] : n \in 1..MaxMappingRows}
    /\ name_mapping_table = <<>>
    /\ request = <<>>
    /\ requests = 0
    /\ sessions = [s \in 1..MaxSessions |-> IdleSession]

\* the request up to its query for an existing mapping (lines 203-245); the
\* UPDATE of the transaction that the session flushes before a query holds
\* the row, so a second request for the same transaction waits
QueryMapping(s) ==
    /\ pc = "serving"
    /\ sessions[s].at = "idle"
    /\ requests + Cardinality({o \in DOMAIN sessions :
                                   sessions[o].at # "idle"}) < MaxMatches
    /\ \E transaction_id \in 1..(Len(transaction_table) + 1),
          tenant_id \in AllTenantIds \cup {3}, remember \in BOOLEAN :
         IF transaction_id > Len(transaction_table)
            \/ tenant_id \notin tenant_table
         THEN /\ Answer("manually_match_transaction", 404)
              /\ UNCHANGED sessions
         ELSE /\ \A o \in DOMAIN sessions :
                     sessions[o].at = "idle"
                     \/ sessions[o].transaction_id # transaction_id
              /\ sessions' =
                     [sessions EXCEPT ![s] =
                         [at |-> "queried",
                          transaction_id |-> transaction_id,
                          tenant_id |-> tenant_id,
                          remember |-> remember,
                          existing_mapping |->
                              HasMapping(name_mapping_table,
                                  _extract_payer_name(
                                      transaction_table[transaction_id]
                                          .description),
                                  tenant_id)]]
              /\ UNCHANGED <<request, requests>>
    /\ UNCHANGED <<pc, tenant_table, transaction_table, name_mapping_table,
                   OtherGroups>>

\* the rest of the request: the mapping is added unless the query found
\* one, and db.commit() (lines 247-265)
CommitMatch(s) ==
    /\ pc = "serving"
    /\ sessions[s].at = "queried"
    /\ LET transaction == transaction_table[sessions[s].transaction_id]
       IN  /\ transaction_table' =
                  [transaction_table EXCEPT ![sessions[s].transaction_id] =
                       ManuallyMatched(transaction, sessions[s].tenant_id)]
           /\ name_mapping_table' =
                  RememberMapping(name_mapping_table, sessions[s].remember,
                                  transaction.description,
                                  sessions[s].tenant_id,
                                  sessions[s].existing_mapping)
    /\ sessions' = [sessions EXCEPT ![s] = IdleSession]
    /\ Answer("manually_match_transaction", 200)
    /\ UNCHANGED <<pc, tenant_table, OtherGroups>>

NextMapping ==
    \E s \in 1..MaxSessions : QueryMapping(s) \/ CommitMatch(s)

SpecMapping == InitMapping /\ [][NextMapping]_vars

\* C30: after any manual matches with remember=true, concurrent ones
\* included, at most one name mapping exists for a payer name and a tenant
C30_OneMappingPerTriple ==
    \A i, j \in 1..Len(name_mapping_table) :
        name_mapping_table[i] = name_mapping_table[j] => i = j


-----------------------------------------------------------------------------
(* Specification of the matcher for every confidence threshold: one call   *)
(* of match_transaction_to_tenants of NameMatchingEngine(threshold).       *)

\* a decision that keeps the best tenant below the threshold
DecideAtKeepsTenant(best, limit) == best

\* lines 82-85 for self.confidence_threshold = limit
DecideAt(best, limit) ==
    IF best.score >= limit
    THEN best
    ELSE [match |-> NoTenant, score |-> best.score, method |-> best.method]

\* the function after its loop, for the threshold limit
ReturnAt(payer, roster, best, expected, actual, limit) ==
    IF IsFalsy(payer) \/ roster = <<>>
    THEN [match |-> NoTenant, score |-> 0, method |-> "none"]
    ELSE DecideAt(AmountBoost(best, expected, actual), limit)

\* thresholds 0, 0.2, 0.7 and 1.0
Thresholds == {0, Hundredths(20), Hundredths(70), ScoreScale}

InitThreshold ==
    /\ NormIdle /\ SuggestIdle /\ PayerIdle /\ ParseIdle /\ ReconIdle
    /\ PhoneIdle /\ ImportIdle /\ LedgerIdle /\ ReminderIdle
    /\ pc = "start"
    /\ payer_name \in PayerNames
    /\ tenants \in Rosters
    /\ expected_amount = NoAmount
    /\ actual_amount = NoAmount
    /\ hash_first \in FirstChoices(payer_name)
    /\ selected = NoDecision
    /\ decision = NoDecision
    /\ baseline = NoDecision
    /\ evaluations = 0
    /\ threshold = 0

\* the call with any of the amounts on an engine constructed with any of
\* the thresholds
MatchAtThreshold ==
    /\ pc = "start"
    /\ selected' = IF Degenerate THEN NoDecision
                   ELSE SelectBest(payer_name, tenants, hash_first)
    /\ evaluations' = IF Degenerate THEN 0
                      ELSE Len(tenants) * Len(strategies)
    /\ \E amounts \in AmountPairs, limit \in Thresholds :
           /\ expected_amount' = amounts[1]
           /\ actual_amount' = amounts[2]
           /\ threshold' = limit
           /\ decision' = ReturnAt(payer_name, tenants, selected',
                                   amounts[1], amounts[2], limit)
    /\ pc' = "matched"
    /\ UNCHANGED <<payer_name, tenants, hash_first, baseline, normVars,
                   suggestVars, payerVars, parseVars, reconVars, phoneVars,
                   importVars, ledgerVars, reminderVars>>

NextThreshold == MatchAtThreshold

SpecThreshold == InitThreshold /\ [][NextThreshold]_vars

\* C26: a returned tenant id is the id of a tenant of the roster, comes
\* with a confidence of at least the threshold and with one of the methods
\* exact, reversed_name, fuzzy and token_based; a decision of method
\* 'amount' has no tenant; for every threshold
C26_ReturnedTenantIsJustified ==
    pc = "matched" =>
        /\ decision.match # NoTenant =>
               /\ \E i \in 1..Len(tenants) : tenants[i].id = decision.match
               /\ decision.score >= threshold
               /\ decision.method \in ToSet(strategies)
        /\ decision.method = "amount" => decision.match = NoTenant

\* a tenant returned at threshold 0.2 with a confidence below 0.7
C26_Witness ==
    /\ pc = "matched"
    /\ threshold = Hundredths(20)
    /\ decision.match # NoTenant
    /\ decision.score < Hundredths(70)


-----------------------------------------------------------------------------
(* suggest_matches against match_transaction_to_tenants (SpecSuggest).     *)

\* the best candidate of match_transaction_to_tenants for the payer and
\* the roster of the call
BestCandidate == SelectBest(payer_name, tenants, hash_first)

\* C27: for a non-empty payer and a roster in which some tenant scores
\* above 0, the first suggestion (top_n >= 1) names the tenant, the
\* confidence and the method of the best candidate that
\* match_transaction_to_tenants selects without amounts; no suggestion has
\* the score 0
C27_FirstSuggestionIsBestCandidate ==
    pc = "suggested" =>
        /\ \A k \in 1..Len(suggestions) : suggestions[k].score > 0
        /\ (~IsFalsy(payer_name) /\ top_n >= 1) =>
               LET best == BestCandidate
               IN  best.score > 0 =>
                       /\ suggestions # <<>>
                       /\ suggestions[1].id = best.match
                       /\ suggestions[1].score = best.score
                       /\ suggestions[1].method = best.method

\* two tenants of the same score above 0: the first of them is the first
\* suggestion
C27_Witness ==
    /\ pc = "suggested"
    /\ ~IsFalsy(payer_name)
    /\ top_n >= 1
    /\ Len(tenants) = 2
    /\ Len(suggestions) = 2
    /\ suggestions[1].score = suggestions[2].score
    /\ suggestions[1].id = tenants[1].id


-----------------------------------------------------------------------------
(* generate_payment_reminders of backend/app/routers/messages.py with      *)
(* WhatsAppService of backend/app/services/whatsapp_service.py.            *)

\* WhatsAppService.validate_phone_number
validate_phone_number(number) ==
    /\ ~IsFalsy(number)
    /\ Len(OnlyDigits(number)) >= 9
    /\ (StartsWith(number, Plus972) \/ StartsWith(number, Tail(Plus972)))

\* WhatsAppService.get_message_type, amounts in half shekels
get_message_type(paid, expected) ==
    IF paid = 0 THEN "payment_reminder"
    ELSE IF paid < expected - StatusTolerance THEN "partial_payment"
    ELSE IF paid > expected + StatusTolerance THEN "overpayment"
    ELSE "payment_received"

RECURSIVE ReminderLoop(_, _, _)
\* the loop over tenants_data, from entry k on: the entries appended to
\* messages
ReminderLoop(tenants_data, numbers, k) ==
    IF k > Len(tenants_data) THEN <<>>
    ELSE LET tenant_data == tenants_data[k]
             number == numbers[tenant_data.tenant_id]
             message_type == get_message_type(tenant_data.paid_amount,
                                              tenant_data.expected_amount)
             rest == ReminderLoop(tenants_data, numbers, k + 1)
         IN  IF IsFalsy(number) THEN rest
             ELSE IF ~validate_phone_number(number)
             THEN <<[tenant_id |-> tenant_data.tenant_id,
                     error |-> TRUE,
                     message_type |-> "none",
                     amount_due |-> 0]>> \o rest
             ELSE IF message_type = "payment_received" THEN rest
             ELSE <<[tenant_id |-> tenant_data.tenant_id,
                     error |-> FALSE,
                     message_type |-> message_type,
                     amount_due |-> tenant_data.expected_amount
                                    - tenant_data.paid_amount]>> \o rest

\* the messages of the response, status_list being payment_status['tenants']
generate_payment_reminders(status_list, numbers, unpaid_only) ==
    ReminderLoop(IF unpaid_only
                 THEN SelectSeq(status_list, LAMBDA t : t.status = "unpaid")
                 ELSE status_list,
                 numbers, 1)

\* no phone, '+972501234567' and '0501234567'
ReminderPhones ==
    { None,
      Plus972 \o <<53, 48, 49, 50, 51, 52, 53, 54, 55>>,
      <<48, 53, 48, 49, 50, 51, 52, 53, 54, 55>> }

InitReminders ==
    /\ NormIdle /\ MatchIdle /\ SuggestIdle /\ PayerIdle /\ ParseIdle
    /\ PhoneIdle /\ ImportIdle /\ LedgerIdle /\ ThresholdIdle
    /\ pc = "start"
    /\ active_tenants \in TenantRows
    /\ building_default \in Defaults
    /\ period_transactions \in PaymentLists
    /\ statuses = <<>>
    /\ summary = <<>>
    /\ \E first_phone \in ReminderPhones :
           phones = <<first_phone, Plus972 \o <<53, 48, 49, 50, 51, 52, 53,
                                                54, 56>> >>
    /\ only_unpaid \in BOOLEAN
    /\ messages = <<>>

\* POST /{building_id}/generate-reminders
GenerateReminders ==
    /\ pc = "start"
    /\ statuses' = tenant_statuses(active_tenants, building_default,
                                   period_transactions)
    /\ summary' = SummaryOf(statuses')
    /\ messages' = generate_payment_reminders(statuses', phones, only_unpaid)
    /\ pc' = "generated"
    /\ UNCHANGED <<active_tenants, building_default, period_transactions,
                   phones, only_unpaid, normVars, matchVars, suggestVars,
                   payerVars, parseVars, phoneVars, importVars, ledgerVars,
                   thresholdVars>>

NextReminders == GenerateReminders

SpecReminders == InitReminders /\ [][NextReminders]_vars

\* C28: with only_unpaid=true there is a message for every tenant whose
\* status is 'unpaid' and whose phone number is valid, and no message of an
\* unpaid tenant is an 'overpayment' message
C28_EveryUnpaidTenantReminded ==
    (pc = "generated" /\ only_unpaid) =>
        \A k \in 1..Len(statuses) :
            (/\ statuses[k].status = "unpaid"
             /\ validate_phone_number(phones[statuses[k].tenant_id]))
            => /\ \E m \in 1..Len(messages) :
                      /\ messages[m].tenant_id = statuses[k].tenant_id
                      /\ ~messages[m].error
               /\ \A m \in 1..Len(messages) :
                      messages[m].tenant_id = statuses[k].tenant_id
                      => messages[m].message_type # "overpayment"

====
